---------------------------- MODULE Spec2Model ----------------------------
(***************************************************************************)
(* Extraction-result parsing and JSON-repair pipeline of the hospital      *)
(* department records manager:                                             *)
(*   src/src/services/documentExtractor.ts  repairTruncatedJSON,           *)
(*                                          reExtractEmptyTables,          *)
(*                                          extractTextFromImage and       *)
(*                                          extractTextFromPDF (the        *)
(*                                          quality check at their end)    *)
(*   src/src/utils/parseExtractedText.ts    parseCompactTable,             *)
(*                                          extractFromParsed,             *)
(*                                          parseExtractedText,            *)
(*                                          parseMarkdownText              *)
(*                                                                         *)
(* Texts are TLA+ strings, read character by character with Len, SubSeq    *)
(* and \o.  JavaScript values are records [t, s, e]: t is the type tag,    *)
(* s the text of a string / number / boolean, e the elements of an array   *)
(* or the entries of an object (an entry is [t |-> "entry", s |-> key,     *)
(* e |-> <<value>>]).                                                      *)
(***************************************************************************)
EXTENDS Integers, Sequences, FiniteSets, TLC

VARIABLES
    \* ---- repairTruncatedJSON (documentExtractor.ts:41-101)
    str,            \* the argument
    fixed,          \* the local `fixed`
    openBraces,     \* the local `openBraces`
    openBrackets,   \* the local `openBrackets`
    inString,       \* the local `inString`
    rpc,            \* position inside repairTruncatedJSON
    rresult,        \* the returned value (JNull for null)
    \* ---- parseCompactTable (parseExtractedText.ts:4-18)
    table,          \* the argument
    tpc,            \* position
    tresult,        \* the returned value
    \* ---- parseExtractedText / parseMarkdownText (parseExtractedText.ts:41-173)
    text,           \* the argument
    ppc,            \* position
    presult,        \* `result`: the StructuredExtraction being built / returned
    lines,          \* parseMarkdownText: `lines`
    li,             \* parseMarkdownText: the loop index i (1-based)
    currentSection, \* parseMarkdownText: `currentSection` (NoSection for null)
    inTable,        \* parseMarkdownText: `inTable`
    tableHeaders,   \* parseMarkdownText: `tableHeaders`
    tableRows,      \* parseMarkdownText: `tableRows`
    remainingLines, \* parseMarkdownText: `remainingLines`
    \* ---- reExtractEmptyTables (documentExtractor.ts:107-267)
    parsedData,     \* the argument, whose tables the gate rewrites in place
    gorig,          \* parsedData as passed in (history)
    gqueue,         \* tablesToReExtract (1-based indices)
    gpc,            \* position
    gresp,          \* the model's raw answer text of the re-extraction call
    greExtracted,   \* `reExtracted`
    gi,             \* the merge loop index i (1-based)
    grequests,      \* number of requests sent to the model (history)
    gprompt,        \* `tableDescriptions` of the request sent (history)
    \* ---- extractTextFromImage / extractTextFromPDF, the quality check at
    \*      their end (documentExtractor.ts:376-392, 536-552)
    structuredText, \* the local `structuredText`
    preGateText,    \* structuredText when the quality check starts (history)
    epc,            \* position
    eresult         \* the returned value

repairVars == <<str, fixed, openBraces, openBrackets, inString, rpc, rresult>>
tableVars  == <<table, tpc, tresult>>
parseVars  == <<text, ppc, presult, lines, li, currentSection, inTable,
                tableHeaders, tableRows, remainingLines>>
gateVars   == <<parsedData, gorig, gqueue, gpc, gresp, greExtracted, gi, grequests,
                gprompt>>
extractVars == <<structuredText, preGateText, epc, eresult>>
vars       == <<repairVars, tableVars, parseVars, gateVars, extractVars>>

\* what each operation leaves alone: the variables of the others
outsideRepair == <<tableVars, parseVars, gateVars, extractVars>>
outsideTable  == <<repairVars, parseVars, gateVars, extractVars>>
outsideParse  == <<repairVars, tableVars, gateVars, extractVars>>
outsideGate   == <<repairVars, tableVars, parseVars, extractVars>>
outsideExtract == <<repairVars, tableVars, parseVars>>

---------------------------------------------------------------------------
(* Bounds of the model                                                     *)

\* the longest cut of a JSON document handed to repairTruncatedJSON (the
\* complete document is handed over as well)
MaxCut == 24

\* the most lines of a markdown text handed to parseExtractedText
MaxLines == 3

\* the most lines of the `data` string of a table handed to parseCompactTable
MaxDataLines == 2

\* the most tables of an extraction handed to reExtractEmptyTables, and the
\* most candidates of an answer
MaxTables == 2

---------------------------------------------------------------------------
(* Constants of the program                                                *)

\* documentExtractor.ts:142  emptyRatio > 0.4
EmptyThresholdPercent == 40

---------------------------------------------------------------------------
(* Characters and strings (String.prototype.trim / split / join, \s, \d)   *)

Char(s, i) == IF i >= 1 /\ i <= Len(s) THEN SubSeq(s, i, i) ELSE ""

CharsOf(s) == { SubSeq(s, i, i) : i \in 1..Len(s) }

\* \s of a JavaScript regular expression and of trim()
Whitespace == {" ", "\t", "\n", "\r", "\f"}

Digits == CharsOf("0123456789")

UpperLetters == "ABCDEFGHIJKLMNOPQRSTUVWXYZ"

LowerLetters == "abcdefghijklmnopqrstuvwxyz"

IsSpace(c) == c \in Whitespace

IsDigit(c) == c \in Digits

IsUpper(c) == c \in CharsOf(UpperLetters)

IsLower(c) == c \in CharsOf(LowerLetters)

\* s.substring(i - 1): the text from position i (1-based) to the end
From(s, i) == IF i > Len(s) THEN "" ELSE SubSeq(s, i, Len(s))

\* s.substring(0, n)
Prefix(s, n) == IF n <= 0 THEN "" ELSE SubSeq(s, 1, n)

StartsWith(s, p) == Len(s) >= Len(p) /\ SubSeq(s, 1, Len(p)) = p

EndsWith(s, p) == Len(s) >= Len(p) /\ SubSeq(s, Len(s) - Len(p) + 1, Len(s)) = p

Includes(s, c) == \E i \in 1..Len(s) : SubSeq(s, i, i) = c

AllSpace(s) == \A i \in 1..Len(s) : IsSpace(SubSeq(s, i, i))

Max(a, b) == IF a >= b THEN a ELSE b

SetMin(S) == CHOOSE x \in S : \A y \in S : x <= y

SetMax(S) == CHOOSE x \in S : \A y \in S : x >= y

\* const v = x; followed by the expression F(v): x is computed once
With(x, F(_)) == CHOOSE r \in { F(v) : v \in {x} } : TRUE

\* first position >= i that holds no character of the set cs (Len(s) + 1 when
\* there is none)
SkipChars(s, i, cs) ==
    IF i > Len(s) THEN i
    ELSE SetMin({ j \in i..(Len(s) + 1) : j = Len(s) + 1 \/ SubSeq(s, j, j) \notin cs })

\* first position >= i that holds a character of the set cs (Len(s) + 1 when
\* there is none)
FindChars(s, i, cs) ==
    IF i > Len(s) THEN i
    ELSE SetMin({ j \in i..(Len(s) + 1) : j = Len(s) + 1 \/ SubSeq(s, j, j) \in cs })

\* first position >= i that holds no whitespace (Len(s) + 1 when there is none)
SkipSpace(s, i) == SkipChars(s, i, Whitespace)

\* last position <= i that holds no whitespace (0 when there is none)
SkipSpaceBack(s, i) ==
    SetMax({ j \in 0..i : j = 0 \/ ~IsSpace(SubSeq(s, j, j)) })

\* String.prototype.trim
Trim(s) ==
    LET a == SkipSpace(s, 1)
        b == SkipSpaceBack(s, Len(s))
    IN  IF a > b THEN "" ELSE SubSeq(s, a, b)

\* the positions of s that hold the character c
PositionsOf(s, c) == { i \in 1..Len(s) : SubSeq(s, i, i) = c }

\* the k-th smallest member of a set of numbers
Kth(P, k) == CHOOSE p \in P : Cardinality({ q \in P : q <= p }) = k

\* String.prototype.split with a one-character separator: the pieces between
\* consecutive separators, the text before the first and after the last
Split(s, sep) ==
    [ k \in 1..(Cardinality(PositionsOf(s, sep)) + 1) |->
        SubSeq(s,
               IF k = 1 THEN 1 ELSE Kth(PositionsOf(s, sep), k - 1) + 1,
               IF k = Cardinality(PositionsOf(s, sep)) + 1 THEN Len(s)
               ELSE Kth(PositionsOf(s, sep), k) - 1) ]

\* Array.prototype.join
RECURSIVE Join(_, _)
Join(parts, sep) ==
    IF Len(parts) = 0 THEN ""
    ELSE IF Len(parts) = 1 THEN parts[1]
    ELSE parts[1] \o sep \o Join(Tail(parts), sep)

\* Array.prototype.map over a sequence (filter is SelectSeq)
MapSeq(seq, F(_)) == [ k \in 1..Len(seq) |-> F(seq[k]) ]

RECURSIVE Repeat(_, _)
Repeat(c, n) == IF n <= 0 THEN "" ELSE c \o Repeat(c, n - 1)

---------------------------------------------------------------------------
(* JavaScript values                                                       *)

Undefined == [t |-> "undefined", s |-> "", e |-> << >>]

JNull == [t |-> "null", s |-> "", e |-> << >>]

JStr(s) == [t |-> "str", s |-> s, e |-> << >>]

JNum(s) == [t |-> "num", s |-> s, e |-> << >>]

JBool(s) == [t |-> "bool", s |-> s, e |-> << >>]

JArr(e) == [t |-> "arr", s |-> "", e |-> e]

JObj(e) == [t |-> "obj", s |-> "", e |-> e]

Entry(k, v) == [t |-> "entry", s |-> k, e |-> << v >>]

\* ToBoolean: what `x && ...` / `x || ...` / `!x` test
Truthy(v) ==
    CASE v.t \in {"undefined", "null"} -> FALSE
      [] v.t = "bool" -> v.s = "true"
      [] v.t = "num"  -> v.s \notin {"0", "-0"}
      [] v.t = "str"  -> v.s # ""
      [] OTHER        -> TRUE

\* Array.isArray
IsArray(v) == v.t = "arr"

\* v.k for a value that is not null or undefined: the own property k of an
\* object, undefined for every other value (no name read by the program is
\* a property of an array, a string, a number or a boolean)
Get(v, k) ==
    IF v.t = "obj" /\ \E n \in 1..Len(v.e) : v.e[n].s = k
    THEN v.e[CHOOSE n \in 1..Len(v.e) : v.e[n].s = k].e[1]
    ELSE Undefined

\* v.k throws a TypeError when v is null or undefined
ReadThrows(v) == v.t \in {"null", "undefined"}

\* obj[k] = v while parsing: a repeated key keeps its place and takes the
\* later value
SetEntry(es, k, v) ==
    IF \E n \in 1..Len(es) : es[n].s = k
    THEN [ n \in 1..Len(es) |-> IF es[n].s = k THEN Entry(k, v) ELSE es[n] ]
    ELSE Append(es, Entry(k, v))

---------------------------------------------------------------------------
(* JSON.parse                                                              *)

JSONWhitespace == {" ", "\t", "\n", "\r"}

\* characters that may not appear unescaped inside a JSON string
ControlChars == {"\t", "\n", "\r", "\f"}

ParseFail == [ok |-> FALSE, v |-> Undefined, next |-> 0]

ParseOk(v, next) == [ok |-> TRUE, v |-> v, next |-> next]

SkipWS(s, i) == SkipChars(s, i, JSONWhitespace)

SkipDigits(s, i) == SkipChars(s, i, Digits)

\* the character an escape \c stands for ("" when \c is no escape; \uXXXX
\* is outside the alphabet of the inputs)
Unescape(c) ==
    CASE c = "\"" -> "\""
      [] c = "\\" -> "\\"
      [] c = "/"  -> "/"
      [] c = "n"  -> "\n"
      [] c = "t"  -> "\t"
      [] c = "r"  -> "\r"
      [] c = "f"  -> "\f"
      [] OTHER    -> ""

\* a string literal whose opening quote is before i; acc is the text so far.
\* The ordinary characters up to the next quote, backslash or control
\* character are taken in one piece.
RECURSIVE ParseStringBody(_, _, _)
ParseStringBody(s, i, acc) ==
    With(FindChars(s, i, {"\"", "\\"} \cup ControlChars), LAMBDA j :
        IF j > Len(s) THEN ParseFail
        ELSE IF Char(s, j) = "\"" THEN ParseOk(JStr(acc \o SubSeq(s, i, j - 1)), j + 1)
        ELSE IF Char(s, j) = "\\"
             THEN IF Unescape(Char(s, j + 1)) # ""
                  THEN With(acc \o SubSeq(s, i, j - 1) \o Unescape(Char(s, j + 1)),
                            LAMBDA acc1 : ParseStringBody(s, j + 2, acc1))
                  ELSE ParseFail
        ELSE ParseFail)

\* -?(0|[1-9][0-9]*)(\.[0-9]+)?([eE][+-]?[0-9]+)?
ParseNumber(s, i) ==
    LET a == IF Char(s, i) = "-" THEN i + 1 ELSE i
        b == IF Char(s, a) = "0" THEN a + 1
             ELSE IF IsDigit(Char(s, a)) THEN SkipDigits(s, a) ELSE 0
        c == IF b = 0 THEN 0
             ELSE IF Char(s, b) = "."
                  THEN (IF IsDigit(Char(s, b + 1)) THEN SkipDigits(s, b + 1) ELSE 0)
                  ELSE b
        x == IF c = 0 THEN 0
             ELSE IF Char(s, c) \in {"e", "E"}
                  THEN LET d == IF Char(s, c + 1) \in {"+", "-"} THEN c + 2 ELSE c + 1
                       IN  IF IsDigit(Char(s, d)) THEN SkipDigits(s, d) ELSE 0
                  ELSE c
    IN  IF x = 0 THEN ParseFail ELSE ParseOk(JNum(SubSeq(s, i, x - 1)), x)

ParseLiteral(s, i) ==
    IF SubSeq(s \o "     ", i, i + 3) = "null" THEN ParseOk(JNull, i + 4)
    ELSE IF SubSeq(s \o "     ", i, i + 3) = "true" THEN ParseOk(JBool("true"), i + 4)
    ELSE IF SubSeq(s \o "     ", i, i + 4) = "false" THEN ParseOk(JBool("false"), i + 5)
    ELSE ParseFail

RECURSIVE ParseValue(_, _)
RECURSIVE ParseMembers(_, _, _)
RECURSIVE ParseElements(_, _, _)

\* the members of an object from position i (a key is expected there)
ParseMembers(s, i, acc) ==
    IF Char(s, i) # "\"" THEN ParseFail
    ELSE With(ParseStringBody(s, i + 1, ""), LAMBDA k :
         IF ~k.ok THEN ParseFail
         ELSE With(SkipWS(s, k.next), LAMBDA c :
              IF Char(s, c) # ":" THEN ParseFail
              ELSE With(ParseValue(s, c + 1), LAMBDA v :
                   IF ~v.ok THEN ParseFail
                   ELSE With(SkipWS(s, v.next), LAMBDA n :
                        With(SetEntry(acc, k.v.s, v.v), LAMBDA es :
                             IF Char(s, n) = "}" THEN ParseOk(JObj(es), n + 1)
                             ELSE IF Char(s, n) = ","
                                  THEN With(SkipWS(s, n + 1),
                                            LAMBDA m : ParseMembers(s, m, es))
                                  ELSE ParseFail)))))

\* the elements of an array from position i (a value is expected there)
ParseElements(s, i, acc) ==
    With(ParseValue(s, i), LAMBDA v :
         IF ~v.ok THEN ParseFail
         ELSE With(SkipWS(s, v.next), LAMBDA n :
              With(Append(acc, v.v), LAMBDA es :
                   IF Char(s, n) = "]" THEN ParseOk(JArr(es), n + 1)
                   ELSE IF Char(s, n) = "," THEN ParseElements(s, n + 1, es)
                   ELSE ParseFail)))

ParseValue(s, i0) ==
    With(SkipWS(s, i0), LAMBDA i :
         IF Char(s, i) = "{"
         THEN With(SkipWS(s, i + 1), LAMBDA j :
                   IF Char(s, j) = "}" THEN ParseOk(JObj(<< >>), j + 1)
                   ELSE ParseMembers(s, j, << >>))
         ELSE IF Char(s, i) = "["
         THEN With(SkipWS(s, i + 1), LAMBDA j :
                   IF Char(s, j) = "]" THEN ParseOk(JArr(<< >>), j + 1)
                   ELSE ParseElements(s, j, << >>))
         ELSE IF Char(s, i) = "\"" THEN ParseStringBody(s, i + 1, "")
         ELSE IF Char(s, i) = "-" \/ IsDigit(Char(s, i)) THEN ParseNumber(s, i)
         ELSE ParseLiteral(s, i))

\* JSON.parse(s): ok = FALSE when it throws a SyntaxError
JSONParse(s) ==
    With(ParseValue(s, 1), LAMBDA r :
         IF r.ok /\ SkipWS(s, r.next) = Len(s) + 1
         THEN [ok |-> TRUE, v |-> r.v]
         ELSE [ok |-> FALSE, v |-> Undefined])

---------------------------------------------------------------------------
(* repairTruncatedJSON  (documentExtractor.ts:41-101)                      *)

\* s.replace(/,\s*<open>[^<close>]*$/, ''): cut the text at the first comma
\* that is followed, after optional whitespace, by `open` and from there to
\* the end by no `close`
StripTrailing(s, open, close) ==
    LET P == { p \in 1..Len(s) :
                 /\ SubSeq(s, p, p) = ","
                 /\ LET q == SkipSpace(s, p + 1) IN
                      /\ Char(s, q) = open
                      /\ \A k \in (q + 1)..Len(s) : SubSeq(s, k, k) # close }
    IN  IF P = {} THEN s ELSE Prefix(s, SetMin(P) - 1)

\* s.replace(/,\s*$/, '')
StripTrailingComma(s) ==
    LET P == { p \in 1..Len(s) : SubSeq(s, p, p) = "," /\ AllSpace(From(s, p + 1)) }
    IN  IF P = {} THEN s ELSE Prefix(s, SetMin(P) - 1)

\* lines 42-46
FirstCleanup(s) ==
    StripTrailingComma(StripTrailing(StripTrailing(Trim(s), "\"", "\""), "[", "]"))

\* lines 78-80
SecondCleanup(s) ==
    StripTrailingComma(StripTrailing(StripTrailing(s, "{", "}"), "[", "]"))

ScanStart == [openBraces |-> 0, openBrackets |-> 0, inString |-> FALSE, escaped |-> FALSE]

\* the body of the loop of lines 54-63 (and 83-92) for one character
ScanChar(st, ch) ==
    IF st.escaped THEN [st EXCEPT !.escaped = FALSE]
    ELSE IF ch = "\\" THEN [st EXCEPT !.escaped = TRUE]
    ELSE IF ch = "\"" THEN [st EXCEPT !.inString = ~st.inString]
    ELSE IF st.inString THEN st
    ELSE [st EXCEPT
            !.openBraces   = @ + (IF ch = "{" THEN 1 ELSE 0) - (IF ch = "}" THEN 1 ELSE 0),
            !.openBrackets = @ + (IF ch = "[" THEN 1 ELSE 0) - (IF ch = "]" THEN 1 ELSE 0)]

\* the loop over the characters lo..hi in order, from the state st (the
\* range is walked in two halves, the second from the state `mid` in which
\* the first ends)
RECURSIVE ScanRange(_, _, _, _)
ScanRange(s, lo, hi, st) ==
    IF lo > hi THEN st
    ELSE IF lo = hi THEN ScanChar(st, SubSeq(s, lo, lo))
    ELSE CHOOSE end \in { ScanRange(s, (lo + hi) \div 2 + 1, hi, mid) :
                             mid \in { ScanRange(s, lo, (lo + hi) \div 2, st) } } : TRUE

\* lines 49-63: the state of the scanner after the whole text
Scan(s) == ScanRange(s, 1, Len(s), ScanStart)

\* CloseOpen with the objects closed before the arrays
CloseOpenBracesFirst(s, inStr, brackets, braces) ==
    s \o (IF inStr THEN "\"" ELSE "")
      \o Repeat("}", Max(0, braces))
      \o Repeat("]", Max(0, brackets))

\* lines 66-70: close the string, then the arrays, then the objects
CloseOpen(s, inStr, brackets, braces) ==
    s \o (IF inStr THEN "\"" ELSE "")
      \o Repeat("]", Max(0, brackets))
      \o Repeat("}", Max(0, braces))

\* `fixed` at the first JSON.parse (line 73)
FirstAttempt(s) ==
    With(FirstCleanup(s), LAMBDA f :
         With(Scan(f), LAMBDA st :
              CloseOpen(f, st.inString, st.openBrackets, st.openBraces)))

\* `fixed` at the second JSON.parse (line 96), from `fixed` of the first
SecondAttempt(f1) ==
    With(SecondCleanup(f1), LAMBDA f :
         With(Scan(f), LAMBDA st :
              CloseOpen(f, st.inString, st.openBrackets, st.openBraces)))

\* the value repairTruncatedJSON(s) returns (JNull for null)
repairTruncatedJSON(s) ==
    With(FirstAttempt(s), LAMBDA f1 :
         With(JSONParse(f1), LAMBDA p1 :
              IF p1.ok THEN p1.v
              ELSE With(JSONParse(SecondAttempt(f1)), LAMBDA p2 :
                        IF p2.ok THEN p2.v ELSE JNull)))

\* ---- repairTruncatedJSON, step by step

\* JSON documents the model may have been emitting when its output was cut
RepairDocs ==
    { "{\"a\": \"hello world\"}",
      "{\"k\":\"v,\"}",
      "[\"a, \"]",
      "{\"a\":\"x,[y\"}",
      "{\"a\":\"b\\\"c\"}",
      "{\"t\":[{\"a\":1},{\"b\":2}]}",
      "{\"a\":1,\"b\":[1,2],\"c\":{\"d\":null}}",
      "[1,[2,3],{\"e\":[]}]",
      " {\"a\" : 1 , \"b\" : \"}\" } ",
      "{\"t\":\"T\",\"r\":[[\"1\",\"2\"],[\"3\",\"4\"]]}",
      "\"s\"",
      "12" }

RepairIdle ==
    /\ str = "" /\ fixed = "" /\ openBraces = 0 /\ openBrackets = 0
    /\ inString = FALSE /\ rpc = "idle" /\ rresult = Undefined

\* every text a cut of the model's output at MaxCut characters or fewer, or
\* at the end, can hand to repairTruncatedJSON
\* a canonical document up to the opening bracket of its `tables`, and the
\* two tables of it
CanonicalHead ==
    "{\"title\":\"T\",\"keyValuePairs\":[{\"key\":\"a\",\"value\":\"b\"}],"
      \o "\"sections\":[{\"heading\":\"H\",\"content\":\"c\"}],\"tables\":["

FirstTable == "{\"caption\":\"C\",\"data\":\"A|B\\n1|2\"}"

SecondTable == "{\"data\":\"C|D\\n3|4\"}"

\* the document cut inside its first or inside its second table (the output
\* of lines 504-528 when the model ran out of tokens there)
TableCuts ==
    { CanonicalHead \o Prefix(FirstTable, n) : n \in 1..(Len(FirstTable) - 1) }
    \cup { CanonicalHead \o FirstTable \o "," \o Prefix(SecondTable, n) :
              n \in 1..(Len(SecondTable) - 1) }

RepairInit ==
    /\ \/ \E d \in RepairDocs : \E n \in 0..Len(d) :
             /\ (n <= MaxCut \/ n = Len(d))
             /\ str = Prefix(d, n)
       \/ str \in TableCuts
    /\ fixed = "" /\ openBraces = 0 /\ openBrackets = 0 /\ inString = FALSE
    /\ rpc = "call" /\ rresult = Undefined

\* lines 42-46
RepairCleanup ==
    /\ rpc = "call"
    /\ fixed' = FirstCleanup(str)
    /\ rpc' = "scan"
    /\ UNCHANGED <<str, openBraces, openBrackets, inString, rresult>>
    /\ UNCHANGED outsideRepair

\* lines 49-63 and 82-92
RepairScan ==
    /\ rpc \in {"scan", "scan2"}
    /\ LET st == Scan(fixed) IN
         /\ openBraces' = st.openBraces
         /\ openBrackets' = st.openBrackets
         /\ inString' = st.inString
    /\ rpc' = IF rpc = "scan" THEN "close" ELSE "close2"
    /\ UNCHANGED <<str, fixed, rresult>>
    /\ UNCHANGED outsideRepair

\* lines 66-70 and 93-95
RepairClose ==
    /\ rpc \in {"close", "close2"}
    /\ fixed' = CloseOpen(fixed, inString, openBrackets, openBraces)
    /\ rpc' = IF rpc = "close" THEN "parse" ELSE "parse2"
    /\ UNCHANGED <<str, openBraces, openBrackets, inString, rresult>>
    /\ UNCHANGED outsideRepair

\* lines 72-74: the first JSON.parse
RepairParse ==
    /\ rpc = "parse"
    /\ LET p == JSONParse(fixed) IN
         IF p.ok THEN rresult' = p.v /\ rpc' = "done"
                 ELSE rresult' = rresult /\ rpc' = "retry"
    /\ UNCHANGED <<str, fixed, openBraces, openBrackets, inString>>
    /\ UNCHANGED outsideRepair

\* lines 78-80
RepairRetryCleanup ==
    /\ rpc = "retry"
    /\ fixed' = SecondCleanup(fixed)
    /\ rpc' = "scan2"
    /\ UNCHANGED <<str, openBraces, openBrackets, inString, rresult>>
    /\ UNCHANGED outsideRepair

\* lines 96-99: the second JSON.parse, null when it throws
RepairRetryParse ==
    /\ rpc = "parse2"
    /\ LET p == JSONParse(fixed) IN
         rresult' = IF p.ok THEN p.v ELSE JNull
    /\ rpc' = "done"
    /\ UNCHANGED <<str, fixed, openBraces, openBrackets, inString>>
    /\ UNCHANGED outsideRepair

RepairNext ==
    \/ RepairCleanup
    \/ RepairScan
    \/ RepairClose
    \/ RepairParse
    \/ RepairRetryCleanup
    \/ RepairRetryParse

---------------------------------------------------------------------------
(* parseCompactTable, extractFromParsed  (parseExtractedText.ts:4-35)      *)

\* x || undefined
OrUndefined(v) == IF Truthy(v) THEN v ELSE Undefined

\* SplitCells without the trim of the cells
SplitCellsNoTrim(line) ==
    LET cells == Split(line, "|")
    IN  JArr([ k \in 1..Len(cells) |-> JStr(cells[k]) ])

\* line.split('|').map(c => c.trim()) as an array of strings
SplitCells(line) ==
    LET cells == Split(line, "|")
    IN  JArr([ k \in 1..Len(cells) |-> JStr(Trim(cells[k])) ])

\* table.data.split('\n').filter(l => l.trim())
NonBlankLines(data) == SelectSeq(Split(data, "\n"), LAMBDA l : Trim(l) # "")

\* the object literal { caption, headers, rows } of lines 11 and 15
TableObject(caption, headers, rows) ==
    JObj(<< Entry("caption", caption), Entry("headers", headers), Entry("rows", rows) >>)

\* parseCompactTable with the legacy headers trimmed like compact cells
parseCompactTableTrimLegacy(tbl) ==
    LET data == Get(tbl, "data") IN
    IF Truthy(data) /\ data.t = "str"
    THEN LET ls == NonBlankLines(data.s) IN
         IF Len(ls) = 0 THEN JNull
         ELSE TableObject(OrUndefined(Get(tbl, "caption")),
                          SplitCells(ls[1]),
                          JArr([ k \in 1..(Len(ls) - 1) |-> SplitCells(ls[k + 1]) ]))
    ELSE IF IsArray(Get(tbl, "headers")) /\ IsArray(Get(tbl, "rows"))
         THEN TableObject(OrUndefined(Get(tbl, "caption")),
                          JArr([ k \in 1..Len(Get(tbl, "headers").e) |->
                                   IF Get(tbl, "headers").e[k].t = "str"
                                   THEN JStr(Trim(Get(tbl, "headers").e[k].s))
                                   ELSE Get(tbl, "headers").e[k] ]),
                          Get(tbl, "rows"))
         ELSE JNull

\* parseCompactTable(tbl) for a tbl that is not null or undefined (for those
\* the read of tbl.data at line 6 throws): the canonical table, JNull for null
parseCompactTable(tbl) ==
    LET data == Get(tbl, "data") IN
    IF Truthy(data) /\ data.t = "str"
    THEN LET ls == NonBlankLines(data.s) IN
         IF Len(ls) = 0 THEN JNull
         ELSE TableObject(OrUndefined(Get(tbl, "caption")),
                          SplitCells(ls[1]),
                          JArr([ k \in 1..(Len(ls) - 1) |-> SplitCells(ls[k + 1]) ]))
    ELSE IF IsArray(Get(tbl, "headers")) /\ IsArray(Get(tbl, "rows"))
         THEN TableObject(OrUndefined(Get(tbl, "caption")),
                          Get(tbl, "headers"), Get(tbl, "rows"))
         ELSE JNull

\* the condition of line 21
Recognised(parsed) ==
    /\ Truthy(parsed)
    /\ parsed.t \in {"obj", "arr"}
    /\ \/ Truthy(Get(parsed, "keyValuePairs"))
       \/ Truthy(Get(parsed, "sections"))
       \/ Truthy(Get(parsed, "tables"))
       \/ Truthy(Get(parsed, "title"))

\* line 23
RawTables(parsed) ==
    IF IsArray(Get(parsed, "tables")) THEN Get(parsed, "tables").e ELSE << >>

\* extractFromParsed throws (the TypeError of parseCompactTable, line 6, out
\* of the map of line 24)
ExtractThrows(parsed) ==
    /\ Recognised(parsed)
    /\ \E k \in 1..Len(RawTables(parsed)) : ReadThrows(RawTables(parsed)[k])

\* a StructuredExtraction
Extraction(title, documentType, keyValuePairs, sections, tables, rawText) ==
    [title |-> title, documentType |-> documentType, keyValuePairs |-> keyValuePairs,
     sections |-> sections, tables |-> tables, rawText |-> rawText]

NoExtraction == Extraction(Undefined, Undefined, << >>, << >>, << >>, Undefined)

\* extractFromParsed(parsed) when it does not throw: [some |-> FALSE] for null
extractFromParsed(parsed) ==
    IF Recognised(parsed)
    THEN LET rawTables == RawTables(parsed)
             mapped == [ k \in 1..Len(rawTables) |-> parseCompactTable(rawTables[k]) ]
             tables == SelectSeq(mapped, LAMBDA t : t # JNull)
         IN  [some |-> TRUE,
              v |-> Extraction(
                      OrUndefined(Get(parsed, "title")),
                      OrUndefined(Get(parsed, "documentType")),
                      IF IsArray(Get(parsed, "keyValuePairs"))
                        THEN Get(parsed, "keyValuePairs").e ELSE << >>,
                      IF IsArray(Get(parsed, "sections"))
                        THEN Get(parsed, "sections").e ELSE << >>,
                      tables,
                      Undefined)]
    ELSE [some |-> FALSE, v |-> NoExtraction]

---------------------------------------------------------------------------
(* parseExtractedText, the JSON stage  (parseExtractedText.ts:41-65)       *)

\* The backquote cannot be written in a string of this module: in every text
\* of the model the character ~ stands for it (no pattern of the program
\* mentions ~, so nothing else treats it specially).
Backquote == "~"

Fence == Backquote \o Backquote \o Backquote

\* StripFence that knows the fence with a closing fence only
StripFenceClosedOnly(t) ==
    IF ~StartsWith(t, Fence) THEN t
    ELSE LET a == IF StartsWith(From(t, 4), "json") THEN 7 ELSE 3 IN
         IF Len(t) >= a + 3 /\ EndsWith(t, Fence)
         THEN Trim(SubSeq(t, a + 1, Len(t) - 3))
         ELSE t

\* lines 44-48 on the trimmed text t: the text inside the code fence, trimmed
\* (first pattern: an opening and a closing fence; second: an opening fence
\* only); t itself when it does not start with a fence
StripFence(t) ==
    IF ~StartsWith(t, Fence) THEN t
    ELSE LET a == IF StartsWith(From(t, 4), "json") THEN 7 ELSE 3 IN
         IF Len(t) >= a + 3 /\ EndsWith(t, Fence)
         THEN Trim(SubSeq(t, a + 1, Len(t) - 3))
         ELSE Trim(From(t, a + 1))

\* lines 43-62: what the JSON stage of parseExtractedText does with `text`:
\*   "return"   result v is returned (line 54 or 60)
\*   "throw"    a TypeError leaves parseExtractedText (thrown by line 59; the
\*              one thrown by line 53 is caught by the catch of line 55)
\*   "fallback" control reaches line 64
JSONStage(t) ==
    With(StripFence(Trim(t)), LAMBDA cleanText :
    With(JSONParse(cleanText), LAMBDA parsed :
         IF parsed.ok /\ ~ExtractThrows(parsed.v)
         THEN With(extractFromParsed(parsed.v), LAMBDA result :
                   IF result.some
                   THEN [kind |-> "return", v |-> result.v]
                   ELSE [kind |-> "fallback", v |-> NoExtraction])
         ELSE With(repairTruncatedJSON(cleanText), LAMBDA repaired :
                   IF ~Truthy(repaired)
                   THEN [kind |-> "fallback", v |-> NoExtraction]
                   ELSE IF ExtractThrows(repaired)
                        THEN [kind |-> "throw", v |-> NoExtraction]
                        ELSE With(extractFromParsed(repaired), LAMBDA result :
                                  IF result.some
                                  THEN [kind |-> "return", v |-> result.v]
                                  ELSE [kind |-> "fallback", v |-> NoExtraction]))))

---------------------------------------------------------------------------
(* parseMarkdownText: the patterns  (parseExtractedText.ts:67-69, 94-154)  *)
(* Every pattern is applied to a trimmed line; [m, g1, g2] is the match    *)
(* (m = FALSE for null) with its capture groups.                           *)

NoMatch == [m |-> FALSE, g1 |-> "", g2 |-> ""]

Match(g1, g2) == [m |-> TRUE, g1 |-> g1, g2 |-> g2]

\* `.` of a regular expression: any character but a line terminator
Dot(c) == c # "" /\ c \notin {"\n", "\r"}

AllDot(s) == \A i \in 1..Len(s) : Dot(SubSeq(s, i, i))

\* str.replace(/\*\*/g, '')
RECURSIVE RemoveBold(_)
RemoveBold(s) ==
    LET P == { p \in 1..(Len(s) - 1) : SubSeq(s, p, p + 1) = "**" }
    IN  IF P = {} THEN s
        ELSE Prefix(s, SetMin(P) - 1) \o RemoveBold(From(s, SetMin(P) + 2))

\* str.replace(/^\*\s+/, '')
RemoveBullet(s) ==
    IF Char(s, 1) = "*" /\ IsSpace(Char(s, 2)) THEN From(s, SkipSpace(s, 2)) ELSE s

\* lines 67-69
cleanBoldMarkers(s) == Trim(RemoveBullet(RemoveBold(s)))

\* str.replace(/:$/, '')
RemoveFinalColon(s) == IF EndsWith(s, ":") THEN Prefix(s, Len(s) - 1) ELSE s

\* line 94: /^\*\*(\d+\.\s*.+?):?\*\*:?\s*$/
\* d: the position of the dot after the digits; w: the last position of the
\* whitespace after it; the group ends at the first position g from which
\* the rest of the line is one of the four endings
NumberedEndings == {"**", ":**", "**:", ":**:"}

SectionNumbered(line) ==
    IF ~StartsWith(line, "**") THEN NoMatch
    ELSE LET d == SkipDigits(line, 3)
             w == SkipSpace(line, d + 1) - 1
             G == { g \in (w + 1)..Len(line) :
                      /\ AllDot(SubSeq(line, w + 1, g))
                      /\ From(line, g + 1) \in NumberedEndings }
         IN  IF d = 3 \/ Char(line, d) # "." THEN NoMatch
             ELSE IF G # {} THEN Match(SubSeq(line, 3, SetMin(G)), "")
             ELSE IF w > d /\ Dot(Char(line, w)) /\ From(line, w + 1) \in NumberedEndings
                  THEN Match(SubSeq(line, 3, w), "")
                  ELSE NoMatch

\* line 95: /^#{1,3}\s+(.+)$/
SkipHashes(s, i) == SkipChars(s, i, {"#"})

SectionHash(line) ==
    LET n == SkipHashes(line, 1) - 1
        w == SkipSpace(line, n + 1)
    IN  IF n \in 1..3 /\ w > n + 1 /\ w <= Len(line) /\ AllDot(From(line, w))
        THEN Match(From(line, w), "")
        ELSE NoMatch

\* line 96: /^\*\*([^*]+)\*\*\s*$/
SectionBold(line) ==
    IF /\ Len(line) >= 5
       /\ StartsWith(line, "**")
       /\ EndsWith(line, "**")
       /\ ~Includes(SubSeq(line, 3, Len(line) - 2), "*")
    THEN Match(SubSeq(line, 3, Len(line) - 2), "")
    ELSE NoMatch

\* lines 94-96: the first of the three patterns that matches
sectionMatch(line) ==
    IF SectionNumbered(line).m THEN SectionNumbered(line)
    ELSE IF SectionHash(line).m THEN SectionHash(line)
    ELSE SectionBold(line)

\* \*\*([^*:]+)\*\*\s*:\s*(.+)$ with the two stars at position b
SkipKeyChars(s, i) == FindChars(s, i, {"*", ":"})

KvBoldAt(line, b) ==
    LET k == SkipKeyChars(line, b + 2)          \* first position after the key
        c == SkipSpace(line, k + 2)             \* position of the colon
        v == SkipSpace(line, c + 1)             \* first position of the value
    IN  IF /\ SubSeq(line \o "  ", b, b + 1) = "**"
           /\ k > b + 2
           /\ SubSeq(line \o "  ", k, k + 1) = "**"
           /\ Char(line, c) = ":"
           /\ v <= Len(line)
           /\ AllDot(From(line, v))
        THEN Match(SubSeq(line, b + 2, k - 1), From(line, v))
        ELSE NoMatch

\* line 109: /^\*\s+\*\*([^*:]+)\*\*\s*:\s*(.+)$/
kvBoldBullet(line) ==
    IF Char(line, 1) = "*" /\ IsSpace(Char(line, 2))
    THEN KvBoldAt(line, SkipSpace(line, 2))
    ELSE NoMatch

\* line 110: /^\*\*([^*:]+)\*\*\s*:\s*(.+)$/
kvBold(line) == KvBoldAt(line, 1)

\* [A-Za-z\s\/\.\-#()\d]
PlainKeyChar(c) ==
    IsUpper(c) \/ IsLower(c) \/ IsSpace(c) \/ IsDigit(c) \/ c \in {"/", ".", "-", "#", "(", ")"}

\* line 111: /^([A-Z][A-Za-z\s\/\.\-#()\d]+?)\s*:\s*(.+)$/
\* p: the first colon; the key ends at the last position before p that holds
\* no whitespace, and has at least two characters
kvPlain(line) ==
    LET P == { p \in 1..Len(line) : SubSeq(line, p, p) = ":" }
        p == SetMin(P)
        v == SkipSpace(line, p + 1)
    IN  IF /\ IsUpper(Char(line, 1))
           /\ P # {}
           /\ p >= 3
           /\ \A i \in 2..(p - 1) : PlainKeyChar(SubSeq(line, i, i))
           /\ v <= Len(line)
           /\ AllDot(From(line, v))
        THEN Match(Prefix(line, Max(2, SkipSpaceBack(line, p - 1))), From(line, v))
        ELSE NoMatch

\* line 112
kvMatch(line) ==
    IF kvBoldBullet(line).m THEN kvBoldBullet(line)
    ELSE IF kvBold(line).m THEN kvBold(line)
    ELSE kvPlain(line)

\* IsKeyValueLine without the test for a pipe
IsKeyValueLineAnyPipe(line) ==
    /\ kvMatch(line).m
    /\ Len(Trim(kvMatch(line).g2)) > 0

\* the condition of line 114
IsKeyValueLine(line) ==
    /\ kvMatch(line).m
    /\ Len(Trim(kvMatch(line).g2)) > 0
    /\ ~Includes(line, "|")

\* line 124: line.split('|').filter(c => c.trim()).map(c => c.trim())
PipeCells(line) ==
    LET kept == SelectSeq(Split(line, "|"), LAMBDA c : Trim(c) # "")
    IN  [ k \in 1..Len(kept) |-> Trim(kept[k]) ]

\* line 127: /^\|[\s\-:|]+\|/
IsSeparatorRow(nextLine) ==
    /\ Char(nextLine, 1) = "|"
    /\ \E k \in 3..Len(nextLine) :
         /\ SubSeq(nextLine, k, k) = "|"
         /\ \A j \in 2..(k - 1) :
              IsSpace(SubSeq(nextLine, j, j)) \/ SubSeq(nextLine, j, j) \in {"-", ":", "|"}

\* String.prototype.toLowerCase, for the i flag of line 154
LowerChar(c) ==
    IF IsUpper(c)
    THEN LET n == CHOOSE k \in 1..Len(UpperLetters) : SubSeq(UpperLetters, k, k) = c
         IN  SubSeq(LowerLetters, n, n)
    ELSE c

RECURSIVE ToLowerRange(_, _, _)
ToLowerRange(s, lo, hi) ==
    IF lo > hi THEN ""
    ELSE IF lo = hi THEN LowerChar(SubSeq(s, lo, lo))
    ELSE ToLowerRange(s, lo, (lo + hi) \div 2) \o ToLowerRange(s, (lo + hi) \div 2 + 1, hi)

\* String.prototype.toLowerCase (the `i` flag of the pattern)
ToLower(s) == ToLowerRange(s, 1, Len(s))

\* line 154: /^(here'?s|the following|extracted|below)/i
isIntroLine(line) ==
    \E p \in {"here's", "heres", "the following", "extracted", "below"} :
        StartsWith(ToLower(line), p)

---------------------------------------------------------------------------
(* parseExtractedText and parseMarkdownText, step by step                  *)

SectionObject(heading, content) ==
    JObj(<< Entry("heading", JStr(heading)), Entry("content", JStr(content)) >>)

KeyValueObject(key, value) ==
    JObj(<< Entry("key", JStr(key)), Entry("value", JStr(value)) >>)

StringArray(cells) == JArr([ k \in 1..Len(cells) |-> JStr(cells[k]) ])

\* the object literal { headers: tableHeaders, rows: tableRows } of lines 138, 163
MarkdownTable(headers, rows) ==
    JObj(<< Entry("headers", StringArray(headers)),
            Entry("rows", JArr([ k \in 1..Len(rows) |-> StringArray(rows[k]) ])) >>)

\* lines of text the markdown texts of the model are made of
MdLinePool ==
    { " ",
      "Name: John",
      "Name: John | extra",
      "## Vitals",
      "**Notes**",
      "**Dept**: ICU",
      "plain **text**",
      "Here's the data",
      "| A | B |",
      "|---|---|",
      "| 1 | 2 |",
      "* item" }

MarkdownTexts ==
    { Join(ls, "\n") : ls \in UNION { [1..n -> MdLinePool] : n \in 0..MaxLines } }

\* elements of a `tables` array, as JSON text
TableElements ==
    { "null",
      "5",
      "\"x\"",
      "{}",
      "{\"data\":\"A|B\\n1|2\\n3|4\"}",
      "{\"caption\":\"Items\",\"data\":\"Item|Qty\\nAtropine|5\\nAdrenaline|-\"}",
      "{\"headers\":[\"A\",\"B\"],\"rows\":[[\"1\",\"2\"]]}",
      "{\"data\":\" \\n \",\"headers\":[\"A\"],\"rows\":[]}",
      "{\"data\":5,\"headers\":[\" A \"],\"rows\":[[\" 1 \",\"2\"]]}",
      "{\"headers\":[\"A\"]}" }

\* the scenario of the specification's section 8, fence included
EndToEndText ==
    Fence \o "json\n"
      \o "{\"title\":\"Stock Register\",\"keyValuePairs\":[{\"key\":\"Dept\",\"value\":\"ICU\"}],"
      \o "\"tables\":[{\"caption\":\"Items\",\"data\":\"Item|Qty\\nAtropine|5\\nAdrenaline|-\"}]}"
      \o "\n" \o Fence

JSONTexts ==
    { "{\"title\":\"T\",\"tables\":[" \o a \o "," \o b \o "]}" :
          a \in TableElements, b \in TableElements }
    \cup { "{\"tables\":[" \o a \o "]}" : a \in TableElements }
    \cup { EndToEndText,
           "{\"x\":1}",
           "[1,2]",
           "12",
           "{\"title\":\"\"}",
           "{\"title\":\"T\",\"documentType\":\"form\",\"keyValuePairs\":5,\"sections\":\"s\"}",
           "{\"sections\":[{\"heading\":\"H\",\"content\":\"c\"}],\"tables\":{}}",
           "{\"title\":\"T\",\"tables\":[{\"data\":\"A|B\\n1",
           "{\"title\":\"T\",\"keyValuePairs\":[{\"key\":\"a\",\"value\":\"b\"}],\"tables\":[{\"data\":\"A",
           "{\"title\":\"T\",\"keyValuePairs\":[{\"key\":\"a\",\"value\":\"b\"},{\"key\":\"c",
           Fence \o "\n{\"title\":\"T\"}",
           "{\"x\":" }

\* a canonical document, a document of another shape and a text that is no
\* JSON, to be wrapped in a code fence
FencedDocuments ==
    { "{\"title\":\"T\",\"keyValuePairs\":[{\"key\":\"a\",\"value\":\"b\"}],\"tables\":[{\"data\":\" A | B \\n1|2\"}]}",
      "{\"x\":1}",
      "Name: John" }

\* the ways of wrapping a text in a code fence: with or without the json tag,
\* with or without the closing fence
FenceWraps(doc) ==
    { Fence \o "json\n" \o doc \o "\n" \o Fence,
      Fence \o "\n" \o doc \o "\n" \o Fence,
      Fence \o "json\n" \o doc,
      Fence \o "\n" \o doc,
      " " \o Fence \o "json " \o doc \o " " \o Fence \o "\n" }

FencedTexts == UNION { FenceWraps(doc) : doc \in FencedDocuments }

\* the key-value lines the comments of lines 105-108 give as examples, and
\* the same keys with the colon after the closing bold marker
KeyValueTexts ==
    { "* **Document Title:** PROPOSAL FOR X",
      "**Date:** 04 FEB 2025",
      "Document Title: PROPOSAL FOR X",
      "* **Document Title**: PROPOSAL FOR X",
      "**Date**: 04 FEB 2025",
      "**Date:** 04 FEB 2025\nDocument Title: PROPOSAL FOR X" }

\* markdown tables: a key-value line, a section header, a plain line and a
\* blank line between the rows; a data row of dashes right after a pipe line;
\* two tables back to back and two tables with a plain line between them
TableTexts ==
    { "| A | B |\n|---|---|\n| 1 | 2 |\nName: John\n| 3 | 4 |",
      "| A | B |\n|---|---|\n| 1 | 2 |\n## Vitals\n| 3 | 4 |",
      "| A | B |\n|---|---|\n| 1 | 2 |\nplain **text**\n| 3 | 4 |",
      "| A | B |\n|---|---|\n| 1 | 2 |\n\n| 3 | 4 |",
      "| Item | Qty |\n| - | 5 |",
      "| Item | Qty |\n| - | 5 |\n| x | 2 |",
      "| A | B |\n|---|---|\n| 1 | 2 |\n| C | D |\n|---|---|\n| 3 | 4 |",
      "| A | B |\n|:--|--:|\n| 1 | 2 |\nplain **text**\n| C | D |\n|---|---|\n| 3 | 4 |" }

\* section headers: the numbered form of the comment of line 91, a line that
\* matches the numbered section pattern and the bold key-value pattern, and
\* a document of three sections
SectionTexts ==
    { "**1. Document Title and Headers:**\nPROPOSAL",
      "**1. A**: **",
      "## Vitals\n**1. A**: **\nBP: 120",
      "intro\n## Vitals\nBP 120\n**Notes**\n## Plan\nrest" }

ParseInputs ==
    MarkdownTexts \cup JSONTexts \cup FencedTexts \cup KeyValueTexts \cup TableTexts
        \cup SectionTexts

ParseIdle ==
    /\ text = "" /\ ppc = "idle" /\ presult = NoExtraction /\ lines = << >> /\ li = 0
    /\ currentSection = JNull /\ inTable = FALSE /\ tableHeaders = << >>
    /\ tableRows = << >> /\ remainingLines = << >>

ParseInit ==
    /\ text \in ParseInputs
    /\ ppc = "call" /\ presult = NoExtraction /\ lines = << >> /\ li = 0
    /\ currentSection = JNull /\ inTable = FALSE /\ tableHeaders = << >>
    /\ tableRows = << >> /\ remainingLines = << >>

mdLocals == <<lines, li, currentSection, inTable, tableHeaders, tableRows, remainingLines>>

\* parseExtractedText lines 43-62: return the extraction, throw, or go on to
\* parseMarkdownText(text) (line 64)
ParseJSON ==
    /\ ppc = "call"
    /\ \E r \in { JSONStage(text) } :
         /\ ppc' = CASE r.kind = "return" -> "done"
                     [] r.kind = "throw"  -> "threw"
                     [] OTHER             -> "markdown"
         /\ presult' = r.v
    /\ UNCHANGED <<text, mdLocals>>
    /\ UNCHANGED outsideParse

\* MdStart reading the unwrapped text instead of `text`
MdStartUnwrapped ==
    /\ ppc = "markdown"
    /\ presult' = Extraction(Undefined, Undefined, << >>, << >>, << >>, JStr(""))
    /\ lines' = Split(StripFence(Trim(text)), "\n")
    /\ li' = 1
    /\ currentSection' = JNull
    /\ inTable' = FALSE
    /\ tableHeaders' = << >>
    /\ tableRows' = << >>
    /\ remainingLines' = << >>
    /\ ppc' = "loop"
    /\ UNCHANGED text
    /\ UNCHANGED outsideParse

\* parseMarkdownText lines 72-84
MdStart ==
    /\ ppc = "markdown"
    /\ presult' = Extraction(Undefined, Undefined, << >>, << >>, << >>, JStr(""))
    /\ lines' = Split(text, "\n")
    /\ li' = 1
    /\ currentSection' = JNull
    /\ inTable' = FALSE
    /\ tableHeaders' = << >>
    /\ tableRows' = << >>
    /\ remainingLines' = << >>
    /\ ppc' = "loop"
    /\ UNCHANGED text
    /\ UNCHANGED outsideParse

\* the condition of line 123
IsPipeLine(line) == Includes(line, "|") /\ StartsWith(line, "|")

\* the lines of the texts handed to parseExtractedText
LinePool ==
    UNION { With(Split(t, "\n"), LAMBDA ls : { ls[k] : k \in 1..Len(ls) }) :
              t \in ParseInputs }

\* what the loop of lines 86-159 works out of a line l: the trimmed line
\* (line 87), the matches of lines 94-96 and 109-112, the conditions of lines
\* 114, 123 and 127, the cells of lines 124 and 133, the test of line 154 and
\* the cleaned line of lines 148 and 156
LineFacts(l) ==
    With(Trim(l), LAMBDA line :
         [line           |-> line,
          sectionMatch   |-> sectionMatch(line),
          kvMatch        |-> kvMatch(line),
          isKeyValueLine |-> IsKeyValueLine(line),
          isPipeLine     |-> IsPipeLine(line),
          isSeparatorRow |-> IsSeparatorRow(line),
          pipeCells      |-> PipeCells(line),
          isIntroLine    |-> isIntroLine(line),
          cleanLine      |-> cleanBoldMarkers(line)])

\* LineFacts of every line of the pool, worked out once
LineTable == [ l \in LinePool |-> LineFacts(l) ]

FactsOf(l) == IF l \in DOMAIN LineTable THEN LineTable[l] ELSE LineFacts(l)

\* lines[i] of line 87
Cur == FactsOf(lines[li])

CurLine == Cur.line

\* lines 125-127: the line after it is a separator row
NextIsSeparatorRow == li + 1 <= Len(lines) /\ FactsOf(lines[li + 1]).isSeparatorRow

InLoop == ppc = "loop" /\ li <= Len(lines)

\* line 88: a blank line
MdBlank ==
    /\ InLoop
    /\ CurLine = ""
    /\ li' = li + 1
    /\ UNCHANGED <<text, ppc, presult, lines, currentSection, inTable, tableHeaders,
                   tableRows, remainingLines>>
    /\ UNCHANGED outsideParse

\* MdSection that opens the new section without pushing the open one
MdSectionDropOpen ==
    /\ InLoop
    /\ CurLine # ""
    /\ Cur.sectionMatch.m
    /\ presult' = presult
    /\ currentSection' =
          SectionObject(Trim(RemoveFinalColon(cleanBoldMarkers(Cur.sectionMatch.g1))), "")
    /\ li' = li + 1
    /\ UNCHANGED <<text, ppc, lines, inTable, tableHeaders, tableRows, remainingLines>>
    /\ UNCHANGED outsideParse

\* lines 94-103: a section header
MdSection ==
    /\ InLoop
    /\ CurLine # ""
    /\ Cur.sectionMatch.m
    /\ presult' = IF currentSection # JNull
                  THEN [presult EXCEPT !.sections = Append(@, currentSection)]
                  ELSE presult
    /\ currentSection' =
          SectionObject(Trim(RemoveFinalColon(cleanBoldMarkers(Cur.sectionMatch.g1))), "")
    /\ li' = li + 1
    /\ UNCHANGED <<text, ppc, lines, inTable, tableHeaders, tableRows, remainingLines>>
    /\ UNCHANGED outsideParse

\* lines 109-120: a key-value line
MdKeyValue ==
    /\ InLoop
    /\ CurLine # ""
    /\ ~Cur.sectionMatch.m
    /\ Cur.isKeyValueLine
    /\ presult' = [presult EXCEPT !.keyValuePairs =
                      Append(@, KeyValueObject(Trim(cleanBoldMarkers(Cur.kvMatch.g1)),
                                               Trim(cleanBoldMarkers(Cur.kvMatch.g2))))]
    /\ li' = li + 1
    /\ UNCHANGED <<text, ppc, lines, currentSection, inTable, tableHeaders, tableRows,
                   remainingLines>>
    /\ UNCHANGED outsideParse

\* lines 123-131: a pipe line followed by a separator row starts a table
MdTableHeader ==
    /\ InLoop
    /\ CurLine # ""
    /\ ~Cur.sectionMatch.m
    /\ ~Cur.isKeyValueLine
    /\ Cur.isPipeLine
    /\ NextIsSeparatorRow
    /\ tableHeaders' = Cur.pipeCells
    /\ inTable' = TRUE
    /\ li' = li + 2
    /\ UNCHANGED <<text, ppc, presult, lines, currentSection, tableRows, remainingLines>>
    /\ UNCHANGED outsideParse

\* lines 132-135: a pipe line inside a table is a data row
MdTableRow ==
    /\ InLoop
    /\ CurLine # ""
    /\ ~Cur.sectionMatch.m
    /\ ~Cur.isKeyValueLine
    /\ Cur.isPipeLine
    /\ ~NextIsSeparatorRow
    /\ inTable
    /\ tableRows' = Append(tableRows, Cur.pipeCells)
    /\ li' = li + 1
    /\ UNCHANGED <<text, ppc, presult, lines, currentSection, inTable, tableHeaders,
                   remainingLines>>
    /\ UNCHANGED outsideParse

\* lines 136-158: any other line closes an open table (unless it is a pipe
\* line) and goes to the open section or to the remaining lines
MdOther ==
    /\ InLoop
    /\ CurLine # ""
    /\ ~Cur.sectionMatch.m
    /\ ~Cur.isKeyValueLine
    /\ ~(Cur.isPipeLine /\ (NextIsSeparatorRow \/ inTable))
    /\ LET closing == ~Cur.isPipeLine /\ inTable IN
         /\ presult' = IF closing /\ Len(tableHeaders) > 0
                       THEN [presult EXCEPT !.tables =
                                Append(@, MarkdownTable(tableHeaders, tableRows))]
                       ELSE presult
         /\ tableHeaders' = IF closing THEN << >> ELSE tableHeaders
         /\ tableRows' = IF closing THEN << >> ELSE tableRows
         /\ inTable' = IF closing THEN FALSE ELSE inTable
    /\ IF currentSection # JNull
       THEN /\ currentSection' =
                 LET cleanLine == Cur.cleanLine
                     content   == Get(currentSection, "content").s
                 IN  IF cleanLine # ""
                     THEN SectionObject(Get(currentSection, "heading").s,
                                        content \o (IF content # "" THEN "\n" ELSE "") \o cleanLine)
                     ELSE currentSection
            /\ UNCHANGED remainingLines
       ELSE /\ remainingLines' = IF ~Cur.isIntroLine
                                 THEN Append(remainingLines, Cur.cleanLine)
                                 ELSE remainingLines
            /\ UNCHANGED currentSection
    /\ li' = li + 1
    /\ UNCHANGED <<text, ppc, lines>>
    /\ UNCHANGED outsideParse

\* MdFlush with the remaining lines joined by a blank instead of a newline
MdFlushBlankJoin ==
    /\ ppc = "loop"
    /\ li > Len(lines)
    /\ presult' =
          [presult EXCEPT
             !.tables   = IF inTable /\ Len(tableHeaders) > 0
                          THEN Append(@, MarkdownTable(tableHeaders, tableRows)) ELSE @,
             !.sections = IF currentSection # JNull THEN Append(@, currentSection) ELSE @,
             !.rawText  = IF Len(remainingLines) > 0
                          THEN JStr(Join(remainingLines, " ")) ELSE @]
    /\ ppc' = "done"
    /\ UNCHANGED <<text, mdLocals>>
    /\ UNCHANGED outsideParse

\* lines 162-172: flush and return
MdFlush ==
    /\ ppc = "loop"
    /\ li > Len(lines)
    /\ presult' =
          [presult EXCEPT
             !.tables   = IF inTable /\ Len(tableHeaders) > 0
                          THEN Append(@, MarkdownTable(tableHeaders, tableRows)) ELSE @,
             !.sections = IF currentSection # JNull THEN Append(@, currentSection) ELSE @,
             !.rawText  = IF Len(remainingLines) > 0
                          THEN JStr(Join(remainingLines, "\n")) ELSE @]
    /\ ppc' = "done"
    /\ UNCHANGED <<text, mdLocals>>
    /\ UNCHANGED outsideParse

ParseNext ==
    \/ ParseJSON
    \/ MdStart
    \/ MdBlank
    \/ MdSection
    \/ MdKeyValue
    \/ MdTableHeader
    \/ MdTableRow
    \/ MdOther
    \/ MdFlush

---------------------------------------------------------------------------
(* parseCompactTable, as called for one element of `tables`                *)

\* lines of a compact `data` string
DataLinePool == { "A|B", "A|B|C", " 1 | 2 ", "1|2", "", " ", "x", "|" }

DataStrings ==
    { Join(ls, "\n") : ls \in UNION { [1..n -> DataLinePool] : n \in 1..MaxDataLines } }

Absent == [t |-> "absent", s |-> "", e |-> << >>]

\* an object literal with the given properties; Absent ones are left out
ObjectOf(props) ==
    JObj(SelectSeq([ k \in 1..Len(props) |-> Entry(props[k][1], props[k][2]) ],
                   LAMBDA en : en.e[1] # Absent))

CaptionValues == { Absent, JStr("Cap"), JStr("") }

DataValues == { JStr(d) : d \in DataStrings } \cup { Absent, JNum("5"), JNull }

HeaderValues ==
    { Absent, JStr("A|B"), JArr(<< >>), JArr(<< JStr("A"), JStr("B") >>),
      JArr(<< JStr(" A "), JNum("1") >>) }

RowValues ==
    { Absent, JStr("1|2"), JArr(<< >>),
      JArr(<< JArr(<< JStr("1"), JStr("2") >>) >>),
      JArr(<< JArr(<< JStr(" 1 ") >>), JArr(<< JStr("1"), JStr("2"), JStr("3") >>) >>) }

TableInputs ==
    { ObjectOf(<< <<"caption", c>>, <<"data", d>>, <<"headers", h>>, <<"rows", r>> >>) :
          c \in CaptionValues, d \in DataValues, h \in HeaderValues, r \in RowValues }
    \cup { JNull, JNum("5"), JStr("A|B"), JArr(<< >>) }

TableIdle == table = Undefined /\ tpc = "idle" /\ tresult = Undefined

TableInit == table \in TableInputs /\ tpc = "call" /\ tresult = Undefined

\* parseCompactTable(table): the TypeError of line 6 for null, else the result
Normalize ==
    /\ tpc = "call"
    /\ IF ReadThrows(table)
       THEN tpc' = "threw" /\ tresult' = tresult
       ELSE tpc' = "done" /\ tresult' = parseCompactTable(table)
    /\ UNCHANGED table
    /\ UNCHANGED outsideTable

TableNext == Normalize

---------------------------------------------------------------------------
(* reExtractEmptyTables  (documentExtractor.ts:107-267)                    *)

\* a ratio empty / total, kept as the two cell counts
Ratio(empty, total) == [empty |-> empty, total |-> total]

\* a / b < c / d for the counts of two ratios (the counts are small, so the
\* floating-point quotients compare as the exact fractions do)
RatioLess(a, b) == a.empty * b.total < b.empty * a.total

RECURSIVE SumSeq(_)
SumSeq(nums) == IF Len(nums) = 0 THEN 0 ELSE nums[1] + SumSeq(Tail(nums))

\* QueueRowCount counting the cells of the row only, whatever the header
QueueRowCountOwnCells(row, headerCols) ==
    LET cells == Split(row, "|")
        n     == Len(cells)
    IN  [total |-> n,
         empty |-> Cardinality({ c \in 1..n : c > Len(cells) \/ Trim(cells[c]) = "" })]

\* lines 130-137 for one data row: [cells counted, cells empty]
QueueRowCount(row, headerCols) ==
    LET cells == Split(row, "|")
        n     == Max(Len(cells), headerCols)
    IN  [total |-> n,
         empty |-> Cardinality({ c \in 1..n : c > Len(cells) \/ Trim(cells[c]) = "" })]

\* lines 123-139: the empty ratio that decides the queueing of a table with
\* the given `data` (0 when there is no data cell)
QueueRatio(data) ==
    LET ls         == NonBlankLines(data)
        headerCols == Len(Split(ls[1], "|"))
        counts     == [ r \in 1..(Len(ls) - 1) |-> QueueRowCount(ls[r + 1], headerCols) ]
        total      == SumSeq([ r \in 1..Len(counts) |-> counts[r].total ])
        empty      == SumSeq([ r \in 1..Len(counts) |-> counts[r].empty ])
    IN  IF Len(ls) = 0 \/ total = 0 THEN Ratio(0, 1) ELSE Ratio(empty, total)

\* Queued with the threshold met at 0.4 already
QueuedFromThreshold(tbl) ==
    LET dataStr == Get(tbl, "data") IN
    /\ Truthy(dataStr)
    /\ dataStr.t = "str"
    /\ Len(NonBlankLines(dataStr.s)) > 1
    /\ LET r == QueueRatio(dataStr.s) IN r.empty * 100 >= EmptyThresholdPercent * r.total

\* lines 120-124 and 142: the table is queued
Queued(tbl) ==
    LET dataStr == Get(tbl, "data") IN
    /\ Truthy(dataStr)
    /\ dataStr.t = "str"
    /\ Len(NonBlankLines(dataStr.s)) > 1
    /\ LET r == QueueRatio(dataStr.s) IN r.empty * 100 > EmptyThresholdPercent * r.total

\* lines 233-240 and 243-250: the empty ratio used to compare the candidate
\* with the original (1 when there is no data cell)
CompareRatio(data) ==
    LET ls     == NonBlankLines(data)
        counts == [ r \in 1..(Len(ls) - 1) |->
                      LET cells == Split(ls[r + 1], "|") IN
                      [total |-> Len(cells),
                       empty |-> Cardinality({ c \in 1..Len(cells) : Trim(cells[c]) = "" })] ]
        total  == SumSeq([ r \in 1..Len(counts) |-> counts[r].total ])
        empty  == SumSeq([ r \in 1..Len(counts) |-> counts[r].empty ])
    IN  IF total > 0 THEN Ratio(empty, total) ELSE Ratio(1, 1)

\* line 252
CandidateIsBetter(newData, oldData) ==
    RatioLess(CompareRatio(newData), CompareRatio(oldData))

\* line 231
UsableCandidate(newTable) ==
    /\ Truthy(newTable)
    /\ Truthy(Get(newTable, "data"))
    /\ Get(newTable, "data").t = "str"

\* parsedData.tables
TablesOf(data) == Get(data, "tables").e

\* WithTable with the caption of the table that is replaced carried over
WithTableKeepCaption(data, ti, newTable) ==
    JObj([ n \in 1..Len(data.e) |->
             IF data.e[n].s = "tables"
             THEN Entry("tables",
                        JArr([TablesOf(data) EXCEPT ![ti] =
                                IF Get(@, "caption") = Undefined THEN newTable
                                ELSE JObj(SetEntry(newTable.e, "caption", Get(@, "caption")))]))
             ELSE data.e[n] ])

\* parsedData.tables[ti] = newTable (line 254)
WithTable(data, ti, newTable) ==
    JObj([ n \in 1..Len(data.e) |->
             IF data.e[n].s = "tables"
             THEN Entry("tables", JArr([TablesOf(data) EXCEPT ![ti] = newTable]))
             ELSE data.e[n] ])

\* lines 211-224: `reExtracted` for the raw answer text (JNull for null)
ParseReExtraction(rawText) ==
    With(JSONParse(StripFence(Trim(rawText))), LAMBDA direct :
         IF direct.ok THEN direct.v
         ELSE IF PositionsOf(rawText, "{") = {} THEN JNull
         ELSE repairTruncatedJSON(From(rawText, SetMin(PositionsOf(rawText, "{")))))

\* ---- the inputs

\* `data` of the tables handed to the gate and of the candidates
GateData ==
    { "A|B\n1|2",            \* no empty cell
      "A|B\n1|",             \* 1 of 2 empty
      "A|B\n|",              \* 2 of 2 empty
      "A|B|C\n1||",          \* 2 of 3 empty
      "A|B\n1",              \* a short row: 1 of 2 empty by the queueing count
      "A|B|C|D|E\n1|2|3||",  \* 2 of 5 empty
      "A|B" }                \* header only

GateTableValues ==
    { ObjectOf(<< <<"caption", JStr("Old")>>, <<"data", JStr(d)>> >>) : d \in GateData }
    \cup { ObjectOf(<< <<"headers", JArr(<< JStr("A") >>)>>, <<"rows", JArr(<< >>)>> >>),
           JNull }

\* `data` around the threshold of line 142: 4 of 10, 40 of 100 and 41 of 100
\* cells empty
ThresholdData ==
    LET header == "A|B|C|D|E|F|G|H|I|J"
        row4   == "1|1|1|1|1|1||||"
        row5   == "1|1|1|1|1|||||"
    IN  { "A|B|C|D|E\n1|2|3||\n1|2|3||",
          Join(<< header >> \o [ r \in 1..10 |-> row4 ], "\n"),
          Join(<< header >> \o [ r \in 1..9 |-> row4 ] \o << row5 >>, "\n") }

ThresholdInputs ==
    { JObj(<< Entry("tables", JArr(<< ObjectOf(<< <<"data", JStr(d)>> >>) >>)) >>) :
          d \in ThresholdData }

GateInputs ==
    { JObj(<< Entry("title", JStr("T")),
              Entry("keyValuePairs", JArr(<< KeyValueObject("a", "b") >>)),
              Entry("sections", JArr(<< SectionObject("H", "c") >>)),
              Entry("tables", JArr(ts)) >>) :
          ts \in UNION { [1..n -> GateTableValues] : n \in 1..MaxTables } }
    \cup ThresholdInputs

\* JSON.stringify of a string without quotes or backslashes
Quoted(s) ==
    LET parts == Split(s, "\n") IN "\"" \o Join(parts, "\\n") \o "\""

CandidateText(d) == "{\"caption\":\"New\",\"data\":" \o Quoted(d) \o "}"

\* `data` of the candidates: filled, half empty, a short row, header only
CandidateData == { "A|B\n1|2", "A|B\n1|", "A|B\n1", "A|B" }

CandidateLists ==
    { Join(cs, ",") :
        cs \in UNION { [1..n -> { CandidateText(d) : d \in CandidateData } \cup {"null"}] :
                         n \in 1..MaxTables } }

\* raw answer texts of the re-extraction call
GateResponses ==
    { "{\"tables\":[" \o l \o "]}" : l \in CandidateLists }
    \cup { Fence \o "json\n{\"tables\":[" \o CandidateText("A|B\n1|2") \o "]}\n" \o Fence,
           "Sure: {\"tables\":[{\"caption\":\"New\",\"data\":\"A|B\\n1|2",
           "{\"tables\":[{\"data\":\"A|B\\n1|2\"}]}",
           "{\"tables\":5}",
           "I cannot read this document",
           "" }

\* `reExtracted` of lines 211-224 for each raw answer text, worked out once
ReExtractionOf == [ r \in GateResponses |-> ParseReExtraction(r) ]

\* lines 155-158: what the prompt quotes of each queued table: its number,
\* its caption (N/A without one) and its data
TableDescriptions ==
    [ k \in 1..Len(gqueue) |->
        LET t == TablesOf(parsedData)[gqueue[k]] IN
        [number  |-> gqueue[k],
         caption |-> IF Truthy(Get(t, "caption")) THEN Get(t, "caption") ELSE JStr("N/A"),
         data    |-> Get(t, "data")] ]

GateIdle ==
    /\ parsedData = Undefined /\ gorig = Undefined /\ gqueue = << >> /\ gpc = "idle"
    /\ gresp = "" /\ greExtracted = Undefined /\ gi = 0 /\ grequests = 0
    /\ gprompt = << >>

GateInit ==
    /\ parsedData \in GateInputs
    /\ gorig = parsedData
    /\ gqueue = << >> /\ gpc = "call" /\ gresp = "" /\ greExtracted = Undefined
    /\ gi = 0 /\ grequests = 0 /\ gprompt = << >>

\* lines 112-150: the early returns and the queue
GateCheck ==
    /\ gpc = "call"
    /\ IF ~Truthy(parsedData) \/ ~IsArray(Get(parsedData, "tables"))
          \/ Len(TablesOf(parsedData)) = 0
       THEN gpc' = "done" /\ gqueue' = gqueue
       ELSE IF \E ti \in 1..Len(TablesOf(parsedData)) : ReadThrows(TablesOf(parsedData)[ti])
            THEN gpc' = "rejected" /\ gqueue' = gqueue
            ELSE LET tbls  == TablesOf(parsedData)
                     queue == SelectSeq([ ti \in 1..Len(tbls) |-> ti ],
                                        LAMBDA ti : Queued(tbls[ti]))
                 IN  /\ gqueue' = queue
                     /\ gpc' = IF Len(queue) = 0 THEN "done" ELSE "request"
    /\ UNCHANGED <<parsedData, gorig, gresp, greExtracted, gi, grequests, gprompt>>
    /\ UNCHANGED outsideGate

\* GateReadFails without the handler of line 261
GateReadFailsOutward ==
    /\ gpc = "request"
    /\ gpc' = "rejected"
    /\ UNCHANGED <<parsedData, gorig, gqueue, gresp, greExtracted, gi, grequests, gprompt>>
    /\ UNCHANGED outsideGate

\* line 186 rejects (the file cannot be read): caught at line 261
GateReadFails ==
    /\ gpc = "request"
    /\ gpc' = "done"
    /\ UNCHANGED <<parsedData, gorig, gqueue, gresp, greExtracted, gi, grequests, gprompt>>
    /\ UNCHANGED outsideGate

\* GateRequestFails with one more try of the request after the first failure
GateRequestFailsRetried ==
    /\ gpc = "request"
    /\ grequests < 2
    /\ grequests' = grequests + 1
    /\ gprompt' = TableDescriptions
    /\ gpc' = IF grequests = 0 THEN "request" ELSE "done"
    /\ UNCHANGED <<parsedData, gorig, gqueue, gresp, greExtracted, gi>>
    /\ UNCHANGED outsideGate

\* lines 189-206: the request is sent and fetch or response.json() rejects:
\* caught at line 261
GateRequestFails ==
    /\ gpc = "request"
    /\ grequests' = grequests + 1
    /\ gprompt' = TableDescriptions
    /\ gpc' = "done"
    /\ UNCHANGED <<parsedData, gorig, gqueue, gresp, greExtracted, gi>>
    /\ UNCHANGED outsideGate

\* lines 189-220: the request is sent and the `text` of the answer is no
\* string (a number, an object): rawText.trim() throws at line 213 and
\* rawText.match() at line 220, inside the handler of line 218; caught at
\* line 261
GateAnswerNotText ==
    /\ gpc = "request"
    /\ grequests' = grequests + 1
    /\ gprompt' = TableDescriptions
    /\ gpc' = "done"
    /\ UNCHANGED <<parsedData, gorig, gqueue, gresp, greExtracted, gi>>
    /\ UNCHANGED outsideGate

\* lines 189-207: the request is sent and answered with some raw text
GateResponse ==
    /\ gpc = "request"
    /\ grequests' = grequests + 1
    /\ gprompt' = TableDescriptions
    /\ gresp' \in GateResponses
    /\ gpc' = "parse"
    /\ UNCHANGED <<parsedData, gorig, gqueue, greExtracted, gi>>
    /\ UNCHANGED outsideGate

\* lines 211-226
GateParse ==
    /\ gpc = "parse"
    /\ \E reExtracted \in { ReExtractionOf[gresp] } :
          /\ greExtracted' = reExtracted
          /\ gpc' = IF Truthy(reExtracted) /\ IsArray(Get(reExtracted, "tables"))
                    THEN "merge" ELSE "done"
    /\ gi' = 1
    /\ UNCHANGED <<parsedData, gorig, gqueue, gresp, grequests, gprompt>>
    /\ UNCHANGED outsideGate

\* GateMerge writing candidate gi over the gi-th table of the document
GateMergeAtCandidateIndex ==
    /\ gpc = "merge"
    /\ gi <= Len(gqueue)
    /\ gi <= Len(TablesOf(greExtracted))
    /\ LET ti       == gi
           newTable == TablesOf(greExtracted)[gi]
       IN  parsedData' =
              IF /\ UsableCandidate(newTable)
                 /\ CandidateIsBetter(Get(newTable, "data").s,
                                      Get(TablesOf(parsedData)[gqueue[gi]], "data").s)
              THEN WithTable(parsedData, ti, newTable)
              ELSE parsedData
    /\ gi' = gi + 1
    /\ UNCHANGED <<gorig, gqueue, gpc, gresp, greExtracted, grequests, gprompt>>
    /\ UNCHANGED outsideGate

\* lines 228-259: one turn of the merge loop
GateMerge ==
    /\ gpc = "merge"
    /\ gi <= Len(gqueue)
    /\ gi <= Len(TablesOf(greExtracted))
    /\ LET ti       == gqueue[gi]
           newTable == TablesOf(greExtracted)[gi]
       IN  parsedData' =
              IF /\ UsableCandidate(newTable)
                 /\ CandidateIsBetter(Get(newTable, "data").s,
                                      Get(TablesOf(parsedData)[ti], "data").s)
              THEN WithTable(parsedData, ti, newTable)
              ELSE parsedData
    /\ gi' = gi + 1
    /\ UNCHANGED <<gorig, gqueue, gpc, gresp, greExtracted, grequests, gprompt>>
    /\ UNCHANGED outsideGate

\* line 228 (the loop ends) and line 266
GateReturn ==
    /\ gpc = "merge"
    /\ (gi > Len(gqueue) \/ gi > Len(TablesOf(greExtracted)))
    /\ gpc' = "done"
    /\ UNCHANGED <<parsedData, gorig, gqueue, gresp, greExtracted, gi, grequests, gprompt>>
    /\ UNCHANGED outsideGate

GateNext ==
    \/ GateCheck
    \/ GateReadFails
    \/ GateRequestFails
    \/ GateAnswerNotText
    \/ GateResponse
    \/ GateParse
    \/ GateMerge
    \/ GateReturn

---------------------------------------------------------------------------
(* extractTextFromImage / extractTextFromPDF: the quality check at their   *)
(* end  (documentExtractor.ts:376-392, 536-552)                            *)

\* JSON.stringify of one character of a string (quote, backslash and the
\* control characters that have a short escape)
EscapeChar(c) ==
    CASE c = "\"" -> "\\\""
      [] c = "\\" -> "\\\\"
      [] c = "\n" -> "\\n"
      [] c = "\r" -> "\\r"
      [] c = "\t" -> "\\t"
      [] c = "\f" -> "\\f"
      [] OTHER    -> c

\* JSON.stringify of a string
StringifyString(s) ==
    "\"" \o Join([ k \in 1..Len(s) |-> EscapeChar(SubSeq(s, k, k)) ], "") \o "\""

\* JSON.stringify of the number a literal without exponent stands for: the
\* zeros that end the fraction go, and the point with them, and -0 reads 0
NumberText(s) ==
    IF PositionsOf(s, ".") = {} THEN (IF s = "-0" THEN "0" ELSE s)
    ELSE LET p == SetMax({ j \in 1..Len(s) : SubSeq(s, j, j) # "0" })
             t == IF SubSeq(s, p, p) = "." THEN Prefix(s, p - 1) ELSE Prefix(s, p)
         IN  IF t = "-0" THEN "0" ELSE t

\* JSON.stringify(v) (lines 386, 546) of a value that came out of JSON.parse
\* (keys that read as array indices, which JavaScript lists first, are not
\* among the inputs)
RECURSIVE Stringify(_)
Stringify(v) ==
    CASE v.t = "str"  -> StringifyString(v.s)
      [] v.t = "num"  -> NumberText(v.s)
      [] v.t = "bool" -> v.s
      [] v.t = "arr"  ->
            "[" \o Join([ k \in 1..Len(v.e) |->
                            IF v.e[k].t = "undefined" THEN "null" ELSE Stringify(v.e[k]) ],
                        ",") \o "]"
      [] v.t = "obj"  ->
            LET kept == SelectSeq(v.e, LAMBDA en : en.e[1].t # "undefined") IN
            "{" \o Join([ k \in 1..Len(kept) |->
                            StringifyString(kept[k].s) \o ":" \o Stringify(kept[k].e[1]) ],
                        ",") \o "}"
      [] OTHER        -> "null"

\* ---- the inputs

\* `structuredText` when the quality check starts: what lines 366-374 and
\* 512-534 isolated from the answer of the model
ExtractTexts ==
    { "{\"title\":\"T\",\"tables\":[{\"caption\":\"Old\",\"data\":\"A|B\\n|\"}]}",
      "{ \"title\": \"T\",\n  \"tables\": [ { \"data\": \"A|B\\n1|\" }, { \"data\": \"A|B\\n1|2\" } ],\n  \"n\": 1.50 }",
      "{\"tables\":[{\"data\":\"A|B\\n|\"},{\"data\":\"A|B|C\\n1||\"}]}",
      "{\"title\":\"T\",\"tables\":[{\"data\":\"A|B\\n1|2\"}]}",
      "{\"title\":\"T\",\"tables\":[{\"headers\":[\"A\"],\"rows\":[]}]}",
      "{\"title\":\"T\",\"tables\":[null]}",
      "{\"title\":\"T\",\"tables\":[{\"data\":\"A|B\\n|\"},null]}",
      "{\"title\":\"T\",\"tables\":[]}",
      "{ \"title\": \"T\", \"tables\": [] }",
      "{\"title\":\"T\",\"tables\":5}",
      "{\"title\":\"T\"}",
      "[{\"data\":\"A|B\\n|\"}]",
      "null",
      "5",
      "",
      "I cannot read this document",
      "## Vitals\n| A | B |\n|---|---|\n| 1 |  |",
      "{\"title\":\"T\",\"tables\":[{\"data\":\"A|B\\n1" }

\* the value returned at lines 392 / 552 and at lines 395 / 555; NotReturned
\* before the return
NotReturned == [returned |-> FALSE, success |-> FALSE, text |-> ""]

ExtractionResult(success, t) == [returned |-> TRUE, success |-> success, text |-> t]

ExtractIdle ==
    structuredText = "" /\ preGateText = "" /\ epc = "idle" /\ eresult = NotReturned

ExtractInit ==
    /\ structuredText \in ExtractTexts
    /\ preGateText = structuredText
    /\ epc = "check"
    /\ eresult = NotReturned

\* lines 379-384 (539-544): the condition under which the gate is called
GateApplies(parsed) ==
    /\ parsed.ok
    /\ Truthy(parsed.v)
    /\ IsArray(Get(parsed.v, "tables"))
    /\ Len(TablesOf(parsed.v)) > 0

\* lines 377-385 (537-545): structuredText is parsed; with a non-empty
\* `tables` reExtractEmptyTables is called on the parsed value, else the
\* function returns at line 392 (552)
ExtractCheck ==
    /\ epc = "check"
    /\ LET parsed == JSONParse(structuredText) IN
       IF GateApplies(parsed)
       THEN /\ parsedData' = parsed.v
            /\ gorig' = parsed.v
            /\ gpc' = "call"
            /\ epc' = "gate"
            /\ eresult' = eresult
       ELSE /\ epc' = "done"
            /\ eresult' = ExtractionResult(TRUE, structuredText)
            /\ UNCHANGED <<parsedData, gorig, gpc>>
    /\ UNCHANGED <<structuredText, preGateText>>
    /\ UNCHANGED <<gqueue, gresp, greExtracted, gi, grequests, gprompt>>
    /\ UNCHANGED outsideExtract

\* lines 385-386 and 392 (545-546 and 552): the gate has returned
ExtractGateReturned ==
    /\ epc = "gate"
    /\ gpc = "done"
    /\ structuredText' = Stringify(parsedData)
    /\ eresult' = ExtractionResult(TRUE, structuredText')
    /\ epc' = "done"
    /\ UNCHANGED preGateText
    /\ UNCHANGED gateVars
    /\ UNCHANGED outsideExtract

\* ExtractGateRejected without the handler of line 388: the rejection
\* reaches the handler of line 393
ExtractGateRejectedOutward ==
    /\ epc = "gate"
    /\ gpc = "rejected"
    /\ eresult' = ExtractionResult(FALSE, "")
    /\ epc' = "done"
    /\ UNCHANGED <<structuredText, preGateText>>
    /\ UNCHANGED gateVars
    /\ UNCHANGED outsideExtract

\* lines 388-392 (548-552): the gate has rejected; the handler logs and the
\* function returns the text it had
ExtractGateRejected ==
    /\ epc = "gate"
    /\ gpc = "rejected"
    /\ eresult' = ExtractionResult(TRUE, structuredText)
    /\ epc' = "done"
    /\ UNCHANGED <<structuredText, preGateText>>
    /\ UNCHANGED gateVars
    /\ UNCHANGED outsideExtract

\* the steps of the check and, between the call and the return of the gate,
\* those of reExtractEmptyTables
ExtractNext ==
    \/ ExtractCheck
    \/ ExtractGateReturned
    \/ ExtractGateRejected
    \/ GateNext

---------------------------------------------------------------------------
(* Specifications: one per operation of the pipeline                       *)

\* repairTruncatedJSON on a cut JSON document
InitRepair == RepairInit /\ TableIdle /\ ParseIdle /\ GateIdle /\ ExtractIdle

SpecRepair == InitRepair /\ [][RepairNext]_vars

\* parseCompactTable on one table
InitTable == TableInit /\ RepairIdle /\ ParseIdle /\ GateIdle /\ ExtractIdle

SpecTable == InitTable /\ [][TableNext]_vars

\* parseExtractedText on a persisted text
InitParse == ParseInit /\ RepairIdle /\ TableIdle /\ GateIdle /\ ExtractIdle

SpecParse == InitParse /\ [][ParseNext]_vars

\* reExtractEmptyTables on a parsed extraction
InitGate == GateInit /\ RepairIdle /\ TableIdle /\ ParseIdle /\ ExtractIdle

SpecGate == InitGate /\ [][GateNext]_vars

\* the quality check at the end of extractTextFromImage / extractTextFromPDF,
\* with the reExtractEmptyTables it calls
InitExtract == ExtractInit /\ RepairIdle /\ TableIdle /\ ParseIdle /\ GateIdle

SpecExtract == InitExtract /\ [][ExtractNext]_vars

\* the pipeline: one of the operations is called
Init == InitRepair \/ InitTable \/ InitParse \/ InitGate \/ InitExtract

Next == RepairNext \/ TableNext \/ ParseNext \/ GateNext \/ ExtractNext

Spec == Init /\ [][Next]_vars

---------------------------------------------------------------------------
(* Properties of parseExtractedText: never throws, unrecognised tables     *)

\* C1: parseExtractedText returns an extraction for every text and never
\* throws, whatever the JSON types of the elements of `tables`.
C1_NeverThrows == ppc # "threw"

\* an element of `tables` that has neither shape: no string `data` and no
\* paired headers / rows arrays
NeitherShape(el) ==
    \/ el.t # "obj"
    \/ /\ Get(el, "data").t # "str"
       /\ ~(IsArray(Get(el, "headers")) /\ IsArray(Get(el, "rows")))

\* the tables kept of the elements els, normalised, in their order
KeptTables(els) ==
    LET kept == SelectSeq(els, LAMBDA el : ~ReadThrows(el) /\ parseCompactTable(el) # JNull)
    IN  [ k \in 1..Len(kept) |-> parseCompactTable(kept[k]) ]

\* C7: for a recognised JSON document the parse does not crash, the elements
\* of `tables` that have neither shape are left out, and the tables returned
\* are the others, normalised, in their relative order.
C7_UnrecognisedDropped ==
    LET doc == JSONParse(StripFence(Trim(text))) IN
    (ppc \in {"done", "threw"} /\ doc.ok /\ Recognised(doc.v)) =>
        /\ ppc = "done"
        /\ presult.tables = KeptTables(RawTables(doc.v))
        /\ \A k \in 1..Len(RawTables(doc.v)) :
              NeitherShape(RawTables(doc.v)[k]) =>
                  \/ ReadThrows(RawTables(doc.v)[k])
                  \/ parseCompactTable(RawTables(doc.v)[k]) = JNull

---------------------------------------------------------------------------
(* Properties of repairTruncatedJSON                                       *)

\* C2: for a text that is already valid JSON, repairTruncatedJSON returns the
\* value JSON.parse returns for it.
C2_RepairIdempotent ==
    (rpc = "done" /\ JSONParse(str).ok) => rresult = JSONParse(str).v

\* the closers that end a text properly: one per bracket left open outside
\* string literals, the innermost first
NestStart == [stack |-> "", inString |-> FALSE, escaped |-> FALSE]

NestChar(st, ch) ==
    IF st.escaped THEN [st EXCEPT !.escaped = FALSE]
    ELSE IF ch = "\\" THEN [st EXCEPT !.escaped = TRUE]
    ELSE IF ch = "\"" THEN [st EXCEPT !.inString = ~st.inString]
    ELSE IF st.inString THEN st
    ELSE IF ch = "{" THEN [st EXCEPT !.stack = "}" \o @]
    ELSE IF ch = "[" THEN [st EXCEPT !.stack = "]" \o @]
    ELSE IF ch \in {"}", "]"} THEN [st EXCEPT !.stack = From(@, 2)]
    ELSE st

RECURSIVE NestRange(_, _, _, _)
NestRange(s, lo, hi, st) ==
    IF lo > hi THEN st
    ELSE IF lo = hi THEN NestChar(st, SubSeq(s, lo, lo))
    ELSE CHOOSE end \in { NestRange(s, (lo + hi) \div 2 + 1, hi, mid) :
                             mid \in { NestRange(s, lo, (lo + hi) \div 2, st) } } : TRUE

Nest(s) == NestRange(s, 1, Len(s), NestStart)

\* the keys of a value, at every depth
RECURSIVE KeysOf(_)
KeysOf(v) ==
    IF v.t = "obj"
    THEN { v.e[n].s : n \in 1..Len(v.e) } \cup UNION { KeysOf(v.e[n].e[1]) : n \in 1..Len(v.e) }
    ELSE IF v.t = "arr" THEN UNION { KeysOf(v.e[n]) : n \in 1..Len(v.e) }
    ELSE {}

\* C3: for a text cut outside every string literal, at a point where closing
\* the open arrays and objects gives valid JSON, repairTruncatedJSON returns a
\* value (not null) that contains every key of the text.
C3_RepairConverges ==
    (/\ rpc = "done"
     /\ ~Nest(str).inString
     /\ JSONParse(str \o Nest(str).stack).ok) =>
        /\ rresult # JNull
        /\ KeysOf(JSONParse(str \o Nest(str).stack).v) \subseteq KeysOf(rresult)

\* position i of s is not escaped: the backslashes right before it are even
\* in number
Unescaped(s, i) ==
    (i - 1 - SetMax({ j \in 0..(i - 1) : j = 0 \/ SubSeq(s, j, j) # "\\" })) % 2 = 0

\* the quotes of s that open or close a string literal
QuotePositions(s) == { q \in PositionsOf(s, "\"") : Unescaped(s, q) }

\* position i of s lies outside the string literals
OutsideString(s, i) == Cardinality({ q \in QuotePositions(s) : q < i }) % 2 = 0

\* the `open` brackets of s outside string literals less the `close` ones
NetOpen(s, open, close) ==
    Cardinality({ i \in PositionsOf(s, open) : Unescaped(s, i) /\ OutsideString(s, i) })
    - Cardinality({ i \in PositionsOf(s, close) : Unescaped(s, i) /\ OutsideString(s, i) })

\* what the closing step appends to s
ClosersOf(s) ==
    (IF Cardinality(QuotePositions(s)) % 2 = 1 THEN "\"" ELSE "")
      \o Repeat("]", Max(0, NetOpen(s, "[", "]")))
      \o Repeat("}", Max(0, NetOpen(s, "{", "}")))

\* C4: the closing step appends a quote if the text ends inside a string
\* literal, then one ] per array left open, then one } per object left open;
\* for {"a": "hello wor the result is the object {"a": "hello wor"}.
C4_ClosingStep ==
    /\ [][(rpc \in {"close", "close2"}) => (fixed' = fixed \o ClosersOf(fixed))]_vars
    /\ []((rpc = "done" /\ str = "{\"a\": \"hello wor")
            => rresult = JObj(<< Entry("a", JStr("hello wor")) >>))

C4_Witness ==
    /\ rpc = "done"
    /\ str = "{\"a\": \"hello wor"
    /\ fixed = "{\"a\": \"hello wor\"}"
    /\ rresult = JObj(<< Entry("a", JStr("hello wor")) >>)

---------------------------------------------------------------------------
(* Properties of parseCompactTable                                         *)

\* the places of the non-blank lines of a `data` string
NonBlankAt(data) ==
    { i \in 1..Len(Split(data, "\n")) : Trim(Split(data, "\n")[i]) # "" }

\* the n-th non-blank line of a `data` string
NthNonBlank(data, n) == Split(data, "\n")[Kth(NonBlankAt(data), n)]

\* the trimmed cells of a line, as an array of strings
TrimmedCells(line) ==
    JArr([ k \in 1..Len(Split(line, "|")) |-> JStr(Trim(Split(line, "|")[k])) ])

C6_LegacyShape ==
    (/\ tpc = "done"
     /\ table.t = "obj"
     /\ Get(table, "data").t # "str"
     /\ IsArray(Get(table, "headers"))
     /\ IsArray(Get(table, "rows"))) =>
        /\ tresult.t = "obj"
        /\ Get(tresult, "headers") = Get(table, "headers")
        /\ Get(tresult, "rows") = Get(table, "rows")

C6_Witness ==
    /\ tpc = "done"
    /\ Get(table, "data") = JNum("5")
    /\ Get(table, "headers") = JArr(<< JStr(" A "), JNum("1") >>)
    /\ Get(table, "rows") =
          JArr(<< JArr(<< JStr(" 1 ") >>), JArr(<< JStr("1"), JStr("2"), JStr("3") >>) >>)
    /\ Get(tresult, "headers") = JArr(<< JStr(" A "), JNum("1") >>)
    /\ Get(tresult, "rows") = Get(table, "rows")

---------------------------------------------------------------------------
(* Properties of the markdown fallback                                     *)

\* the text is not JSON and is not repaired to a recognised document
NotJSONText(t) ==
    /\ ~JSONParse(StripFence(Trim(t))).ok
    /\ ~Recognised(repairTruncatedJSON(StripFence(Trim(t))))

\* the lines of a text, trimmed
TrimmedLines(t) == [ k \in 1..Len(Split(t, "\n")) |-> Trim(Split(t, "\n")[k]) ]

\* the input, cleaned: its non-blank lines, trimmed and free of bold and
\* bullet markers, joined by newlines
CleanedInput(t) ==
    LET kept == SelectSeq(TrimmedLines(t), LAMBDA l : l # "")
    IN  Join([ k \in 1..Len(kept) |-> cleanBoldMarkers(kept[k]) ], "\n")

\* line k of the text is no section header, key-value line, intro line or
\* header row of a table
PlainLine(t, k) ==
    LET l   == TrimmedLines(t)[k]
        nxt == IF k + 1 <= Len(TrimmedLines(t)) THEN TrimmedLines(t)[k + 1] ELSE ""
    IN  \/ l = ""
        \/ /\ ~sectionMatch(l).m
           /\ ~IsKeyValueLine(l)
           /\ ~isIntroLine(l)
           /\ ~(IsPipeLine(l) /\ IsSeparatorRow(nxt))

FallbackIsRawText ==
    /\ presult.keyValuePairs = << >>
    /\ presult.sections = << >>
    /\ presult.tables = << >>
    /\ presult.rawText = JStr(CleanedInput(text))

C9_PipeExclusion ==
    /\ [][(ppc = "loop" /\ presult'.keyValuePairs # presult.keyValuePairs)
             => ~Includes(lines[li], "|")]_vars
    /\ []((ppc = "done" /\ text = "Name: John | extra")
            => /\ presult.keyValuePairs = << >>
               /\ presult.rawText = JStr("Name: John | extra"))

C9_Witness ==
    /\ ppc = "done"
    /\ text = "Name: John | extra"
    /\ presult.keyValuePairs = << >>
    /\ presult.rawText = JStr("Name: John | extra")

---------------------------------------------------------------------------
(* Properties of the quality gate                                          *)

\* C10: a queued table is replaced by its candidate only if the candidate's
\* empty ratio (empty cells over cells, a row counting as many cells as the
\* longer of itself and the header) is strictly lower than the original's.
C10_StrictImprovement ==
    \A k \in 1..Len(gqueue) :
        (/\ gpc \in {"merge", "done"}
         /\ TablesOf(parsedData)[gqueue[k]] # TablesOf(gorig)[gqueue[k]]) =>
            RatioLess(QueueRatio(Get(TablesOf(parsedData)[gqueue[k]], "data").s),
                      QueueRatio(Get(TablesOf(gorig)[gqueue[k]], "data").s))

---------------------------------------------------------------------------
(* Properties of the queueing of the quality gate                          *)

\* the cells of the r-th data row of a `data` string (the first non-blank
\* line is the header)
DataRowCells(data, r) == Split(NthNonBlank(data, r + 1), "|")

DataRowCount(data) == Cardinality(NonBlankAt(data)) - 1

\* the cells a data row counts for: the longer of itself and the header
EffectiveCells(data, r) ==
    Max(Len(DataRowCells(data, r)), Len(Split(NthNonBlank(data, 1), "|")))

\* its cells that are blank after trim, the missing ones included
BlankCells(data, r) ==
    EffectiveCells(data, r)
      - Cardinality({ c \in 1..Len(DataRowCells(data, r)) : Trim(DataRowCells(data, r)[c]) # "" })

TotalCellCount(data) == SumSeq([ r \in 1..DataRowCount(data) |-> EffectiveCells(data, r) ])

BlankCellCount(data) == SumSeq([ r \in 1..DataRowCount(data) |-> BlankCells(data, r) ])

\* blank and total cell counts of the `data` strings handed to the gate
CellCounts ==
    [ d \in GateData \cup ThresholdData |->
        [blank |-> BlankCellCount(d), total |-> TotalCellCount(d)] ]

\* the table has a string `data` of more than one non-blank line
HasDataRows(tbl) ==
    /\ Get(tbl, "data").t = "str"
    /\ Cardinality(NonBlankAt(Get(tbl, "data").s)) > 1

\* the queue has been built and no request has been sent yet
QueueBuilt == grequests = 0 /\ gpc \in {"request", "done"}

InQueue(ti) == \E k \in 1..Len(gqueue) : gqueue[k] = ti

\* C11: a table is queued exactly if its empty ratio is above 0.4: tables
\* with 2 of 5, 4 of 10 or 40 of 100 cells empty are not queued, one with 41
\* of 100 is.
C11_Threshold ==
    QueueBuilt =>
        \A ti \in 1..Len(TablesOf(gorig)) :
            LET tbl == TablesOf(gorig)[ti] IN
            /\ InQueue(ti) => HasDataRows(tbl)
            /\ HasDataRows(tbl) =>
                  LET n == CellCounts[Get(tbl, "data").s] IN
                  /\ InQueue(ti) <=> 10 * n.blank > 4 * n.total
                  /\ (<<n.blank, n.total>> \in {<<2, 5>>, <<4, 10>>, <<40, 100>>}) => ~InQueue(ti)
                  /\ (<<n.blank, n.total>> = <<41, 100>>) => InQueue(ti)

C11_Witness ==
    /\ gpc = "done"
    /\ Len(TablesOf(gorig)) = 1
    /\ HasDataRows(TablesOf(gorig)[1])
    /\ CellCounts[Get(TablesOf(gorig)[1], "data").s] = [blank |-> 41, total |-> 100]
    /\ gqueue = << 1 >>

---------------------------------------------------------------------------
(* Properties of the re-extraction round of the quality gate               *)

\* C12: when reading the file, the request, the decoding of the answer or the
\* parsing of the answer text fails, reExtractEmptyTables does not reject and
\* returns the tables it was given, none of them modified.
C12_FailuresAbsorbed ==
    /\ [][(gpc \in {"request", "parse", "merge"}) => (gpc' # "rejected")]_vars
    /\ [][(gpc = "request" /\ gpc' = "done") => (parsedData' = gorig)]_vars
    /\ []((gpc = "done" /\ grequests = 1 /\ gi = 1 /\ greExtracted = JNull)
            => parsedData = gorig)

C12_Witness ==
    /\ gpc = "done"
    /\ gqueue # << >>
    /\ grequests = 1
    /\ gresp = "I cannot read this document"
    /\ greExtracted = JNull
    /\ parsedData = gorig

---------------------------------------------------------------------------
(* Properties of the JSON stage of parseExtractedText                      *)

\* the canonical documents among the fenced ones
CanonicalFenced ==
    { doc \in FencedDocuments : JSONParse(doc).ok /\ Recognised(JSONParse(doc).v) }

\* C13: a canonical document wrapped in a code fence, with or without the
\* json tag and with or without the closing fence, gives the extraction the
\* document gives without the fence; the fenced stock register gives its
\* title, its key-value pair and its table.
C13_FenceUnwrapping ==
    /\ \A doc \in CanonicalFenced :
          (ppc \in {"markdown", "loop", "done", "threw"} /\ text \in FenceWraps(doc)) =>
              /\ ppc = "done"
              /\ presult = JSONStage(doc).v
              /\ presult.title = Get(JSONParse(doc).v, "title")
              /\ presult.keyValuePairs = Get(JSONParse(doc).v, "keyValuePairs").e
    /\ (ppc \in {"markdown", "loop", "done", "threw"} /\ text = EndToEndText) =>
          /\ ppc = "done"
          /\ presult.title = JStr("Stock Register")
          /\ presult.keyValuePairs =
                << JObj(<< Entry("key", JStr("Dept")), Entry("value", JStr("ICU")) >>) >>
          /\ presult.tables =
                << TableObject(JStr("Items"),
                               JArr(<< JStr("Item"), JStr("Qty") >>),
                               JArr(<< JArr(<< JStr("Atropine"), JStr("5") >>),
                                       JArr(<< JStr("Adrenaline"), JStr("-") >>) >>)) >>

C13_Witness ==
    /\ ppc = "done"
    /\ \E doc \in CanonicalFenced : text = Fence \o "\n" \o doc
    /\ presult.title = JStr("T")
    /\ presult.tables =
          << TableObject(Undefined, JArr(<< JStr("A"), JStr("B") >>),
                         JArr(<< JArr(<< JStr("1"), JStr("2") >>) >>)) >>

---------------------------------------------------------------------------
(* Properties of the hand-over from the JSON stage to the markdown         *)
(* fallback                                                                *)

\* both JSON.parse calls of repairTruncatedJSON (lines 73 and 96) throw
BothAttemptsFail(s) ==
    With(FirstAttempt(s), LAMBDA f1 :
         ~JSONParse(f1).ok /\ ~JSONParse(SecondAttempt(f1)).ok)

\* parseExtractedText has left its JSON stage and nothing else has run yet
JSONStageLeft == ppc \in {"markdown", "threw"} \/ (ppc = "done" /\ li = 0)

FencedNameLine == Fence \o "json\nName: John\n" \o Fence

\* C14: when both parse attempts of the repair fail, repairTruncatedJSON
\* gives null and nothing is thrown; then, and also when the parsed or the
\* repaired value has an unrecognisable shape, parseExtractedText goes on to
\* the markdown fallback, which reads the lines of the original text, the
\* code fence included.
C14_RepairFailureIsValue ==
    /\ JSONStageLeft =>
          \E cleanText \in { StripFence(Trim(text)) } :
          \E parsed \in { JSONParse(cleanText) } :
          \E repaired \in { repairTruncatedJSON(cleanText) } :
             /\ (~parsed.ok /\ repaired # JNull) => ~BothAttemptsFail(cleanText)
             /\ (~parsed.ok /\ BothAttemptsFail(cleanText)) => ppc = "markdown"
             /\ (parsed.ok /\ ~ExtractThrows(parsed.v) /\ ~Recognised(parsed.v)) =>
                    ppc = "markdown"
             /\ (~parsed.ok /\ ~ExtractThrows(repaired) /\ ~Recognised(repaired)) =>
                    ppc = "markdown"
    /\ ppc = "loop" => lines = Split(text, "\n")
    /\ (ppc = "done" /\ text = FencedNameLine) =>
          /\ presult.keyValuePairs = << KeyValueObject("Name", "John") >>
          /\ presult.rawText = JStr(Fence \o "json\n" \o Fence)

C14_Witness ==
    /\ ppc = "done"
    /\ text = FencedNameLine
    /\ BothAttemptsFail(StripFence(Trim(text)))
    /\ lines = << Fence \o "json", "Name: John", Fence >>
    /\ presult.rawText = JStr(Fence \o "json\n" \o Fence)

---------------------------------------------------------------------------
(* Properties of the re-extraction round of reExtractEmptyTables           *)

\* C15: a run of the quality gate sends at most one request; the request
\* describes every queued table, in queue order; with an empty queue no
\* request is sent and the input is returned as it came; a request that
\* fails ends the run, and a finished run takes no further step.
C15_SingleRound ==
    /\ [](grequests <= 1)
    /\ []((gpc \in {"done", "rejected"} /\ gqueue = << >>) =>
             (grequests = 0 /\ gprompt = << >> /\ parsedData = gorig))
    /\ [](grequests = 1 =>
             /\ gqueue # << >>
             /\ Len(gprompt) = Len(gqueue)
             /\ \A k \in 1..Len(gqueue) :
                   /\ gprompt[k].number = gqueue[k]
                   /\ gprompt[k].data = Get(TablesOf(gorig)[gqueue[k]], "data"))
    /\ [][(gpc = "request" /\ grequests' = 1 /\ gpc' # "parse") => (gpc' = "done")]_vars
    /\ [][gpc # "done"]_vars

C15_Witness ==
    /\ gpc = "done"
    /\ grequests = 1
    /\ Len(gqueue) = 2
    /\ Len(gprompt) = 2
    /\ gresp = ""
    /\ greExtracted = Undefined
    /\ parsedData = gorig

---------------------------------------------------------------------------
(* Properties of the result of parseExtractedText                          *)

\* C16: in a result of parseExtractedText a non-empty rawText comes with no
\* key-value pair, no section and no table.
C16_RawTextExclusive ==
    (ppc = "done" /\ Truthy(presult.rawText)) =>
        /\ presult.keyValuePairs = << >>
        /\ presult.sections = << >>
        /\ presult.tables = << >>

\* the three forms of a key-value line, each with its key and its value
KeyValueForms ==
    { [line |-> "* **Document Title:** PROPOSAL FOR X",
       key |-> "Document Title", value |-> "PROPOSAL FOR X"],
      [line |-> "**Date:** 04 FEB 2025", key |-> "Date", value |-> "04 FEB 2025"],
      [line |-> "Document Title: PROPOSAL FOR X",
       key |-> "Document Title", value |-> "PROPOSAL FOR X"] }

\* C17: a line of the form `* **Key:** value`, `**Key:** value` or
\* `Label: value` gives one key-value pair, key and value without bold and
\* bullet markers, and nothing else.
C17_KeyValueForms ==
    \A f \in KeyValueForms :
        (ppc = "done" /\ text = f.line) =>
            /\ presult.keyValuePairs = << KeyValueObject(f.key, f.value) >>
            /\ ~Truthy(presult.rawText)

\* the object v has a property k
ContainsKey(v, k) == v.t = "obj" /\ \E i \in 1..Len(v.e) : v.e[i].s = k

CanonicalKeys == {"keyValuePairs", "sections", "tables", "title"}

\* C18: a parsed or repaired object that contains one of the keys
\* keyValuePairs, sections, tables, title is returned as an extraction and
\* not sent to the markdown fallback: title and documentType are the
\* object's, keyValuePairs and sections are the object's sequences, or empty
\* when they are no sequences, and no table of the result is a failure.
C18_CanonicalRecognition ==
    JSONStageLeft =>
       \E cleanText \in { StripFence(Trim(text)) } :
       \E parsed \in { JSONParse(cleanText) } :
       \E v \in { IF parsed.ok THEN parsed.v ELSE repairTruncatedJSON(cleanText) } :
          (\E k \in CanonicalKeys : ContainsKey(v, k)) =>
             /\ ppc = "done"
             /\ presult.title = Get(v, "title")
             /\ presult.documentType = Get(v, "documentType")
             /\ presult.keyValuePairs =
                   (IF IsArray(Get(v, "keyValuePairs")) THEN Get(v, "keyValuePairs").e
                    ELSE << >>)
             /\ presult.sections =
                   (IF IsArray(Get(v, "sections")) THEN Get(v, "sections").e ELSE << >>)
             /\ Len(presult.tables) <= Len(RawTables(v))
             /\ \A k \in 1..Len(presult.tables) : presult.tables[k] # JNull

---------------------------------------------------------------------------
(* Properties of the comparison of the quality gate                        *)

\* the empty ratio of the queueing, from the cell counts of a `data` string
EmptyRatioOf(data) ==
    IF TotalCellCount(data) > 0
    THEN Ratio(BlankCellCount(data), TotalCellCount(data))
    ELSE Ratio(0, 1)

SameRatio(a, b) == a.empty * b.total = b.empty * a.total

\* C19: when the gate compares a usable candidate with the queued original,
\* the ratio it works out for each of the two is the empty ratio of the
\* queueing: blank cells over the sum of max(row cells, header cells).
C19_SameFormula ==
    (gpc = "merge" /\ gi <= Len(gqueue) /\ gi <= Len(TablesOf(greExtracted))
       /\ UsableCandidate(TablesOf(greExtracted)[gi])) =>
        \E new \in { Get(TablesOf(greExtracted)[gi], "data").s } :
        \E old \in { Get(TablesOf(parsedData)[gqueue[gi]], "data").s } :
           /\ SameRatio(CompareRatio(old), EmptyRatioOf(old))
           /\ SameRatio(CompareRatio(old), QueueRatio(old))
           /\ SameRatio(CompareRatio(new), EmptyRatioOf(new))

---------------------------------------------------------------------------
(* Properties of the empty ratio of the queueing                           *)

\* the empty ratio of lines 123-139 for each `data` handed to the gate,
\* worked out once
QueueRatios == [ d \in GateData \cup ThresholdData |-> QueueRatio(d) ]

\* C20: for a table whose `data` is a string of more than one non-blank
\* line, the empty ratio of the queueing is the number of blank data cells,
\* the cells missing from rows shorter than the header included, over the
\* sum of max(row cells, header cells); a table with one non-blank line or
\* none, or without a string `data`, is not queued.
C20_EmptyRatio ==
    QueueBuilt =>
        \A ti \in 1..Len(TablesOf(gorig)) :
            \E tbl \in { TablesOf(gorig)[ti] } :
               IF HasDataRows(tbl)
               THEN \E d \in { Get(tbl, "data").s } :
                       /\ QueueRatios[d].empty = CellCounts[d].blank
                       /\ QueueRatios[d].total = CellCounts[d].total
                       /\ d = "A|B\n1" => QueueRatios[d] = Ratio(1, 2) /\ InQueue(ti)
                       /\ d = "A|B|C\n1||" => QueueRatios[d] = Ratio(2, 3) /\ InQueue(ti)
                       /\ d = "A|B\n1|2" => QueueRatios[d] = Ratio(0, 2) /\ ~InQueue(ti)
               ELSE ~InQueue(ti)

C20_Witness ==
    /\ gpc = "request"
    /\ Len(TablesOf(gorig)) = 2
    /\ Get(TablesOf(gorig)[1], "data") = JStr("A|B")
    /\ Get(TablesOf(gorig)[2], "data") = JStr("A|B\n1")
    /\ QueueRatios["A|B\n1"] = Ratio(1, 2)
    /\ gqueue = << 2 >>

---------------------------------------------------------------------------
(* Properties of the tables of the markdown fallback                       *)

\* C21: while a table is open, a non-blank line that does not start with |
\* closes the table and puts it into the output, whatever else the line is.
C21_TableClosing ==
    [][(InLoop /\ inTable /\ CurLine # "" /\ ~StartsWith(CurLine, "|")) =>
          (/\ ~inTable'
           /\ tableRows' = << >>
           /\ presult'.tables =
                 Append(presult.tables, MarkdownTable(tableHeaders, tableRows)))]_vars

\* the line consists of pipes, dashes, colons and whitespace only
SeparatorOnly(line) ==
    \A i \in 1..Len(line) :
        IsSpace(SubSeq(line, i, i)) \/ SubSeq(line, i, i) \in {"|", "-", ":"}

\* C22: a line becomes the header of a table, and the line after it is
\* skipped, only when that next line consists of pipes, dashes, colons and
\* whitespace; after | Item | Qty | the row | - | 5 | is a data row.
C22_TableStart ==
    /\ [][(InLoop /\ (li' = li + 2 \/ (~inTable /\ inTable'))) =>
             (/\ StartsWith(CurLine, "|")
              /\ li + 1 <= Len(lines)
              /\ SeparatorOnly(Trim(lines[li + 1])))]_vars
    /\ []((ppc = "done" /\ text = "| Item | Qty |\n| - | 5 |\n| x | 2 |") =>
             \A k \in 1..Len(presult.tables) :
                 Get(presult.tables[k], "headers") # StringArray(<< "Item", "Qty" >>))

---------------------------------------------------------------------------
(* Properties of the sections of the markdown fallback                     *)

\* the section-header lines among the first n lines of the text
HeaderLines(n) ==
    { k \in 1..n : FactsOf(lines[k]).line # "" /\ FactsOf(lines[k]).sectionMatch.m }

\* the sections closed or open so far, in order
SectionsSoFar ==
    IF currentSection # JNull THEN Append(presult.sections, currentSection)
    ELSE presult.sections

\* C23: a section-header line pushes the open section, if any, and opens a
\* section with empty content, also when the line matches a key-value
\* pattern; there is one section per header line read, in the order of the
\* lines, and at the end of the input all of them are in the output.
C23_SectionLifecycle ==
    /\ [][(InLoop /\ li \in HeaderLines(Len(lines))) =>
             (/\ currentSection' # JNull
              /\ Get(currentSection', "content") = JStr("")
              /\ presult'.sections = SectionsSoFar
              /\ presult'.keyValuePairs = presult.keyValuePairs
              /\ li' = li + 1)]_vars
    /\ [](ppc = "loop" =>
             Len(SectionsSoFar) = Cardinality(HeaderLines(li - 1)))
    /\ []((ppc = "done" /\ li > 0) =>
             /\ Len(presult.sections) = Cardinality(HeaderLines(Len(lines)))
             /\ \A j \in 1..Len(presult.sections) :
                   \E sm \in { FactsOf(lines[Kth(HeaderLines(Len(lines)), j)]).sectionMatch } :
                      Get(presult.sections[j], "heading") =
                         JStr(Trim(RemoveFinalColon(cleanBoldMarkers(sm.g1)))))
    /\ []((ppc = "done" /\ text = "intro\n## Vitals\nBP 120\n**Notes**\n## Plan\nrest") =>
             presult.sections = << SectionObject("Vitals", "BP 120"),
                                   SectionObject("Notes", ""),
                                   SectionObject("Plan", "rest") >>)

C23_Witness ==
    /\ ppc = "done"
    /\ text = "## Vitals\n**1. A**: **\nBP: 120"
    /\ FactsOf(lines[2]).kvMatch.m
    /\ FactsOf(lines[2]).sectionMatch.m
    /\ Len(presult.sections) = 2
    /\ Get(presult.sections[1], "heading") = JStr("Vitals")
    /\ presult.keyValuePairs = << KeyValueObject("BP", "120") >>

---------------------------------------------------------------------------
(* Properties of the second attempt of repairTruncatedJSON                 *)

\* the text ends in an element `, {...` whose object is not terminated
EndsInOpenObject(s) == StripTrailing(Trim(s), "{", "}") # Trim(s)

\* C24: when the first parse fails there is one retry, on the text without
\* its trailing incomplete elements and closed anew; for a text that ends in
\* an incomplete `, {...` element the retry parses.
C24_SecondAttempt ==
    /\ [][(rpc = "parse" /\ rpc' # "done") => (rpc' = "retry")]_vars
    /\ [][(rpc = "parse2") => (rpc' = "done")]_vars
    /\ []((rpc = "done" /\ EndsInOpenObject(str) /\ ~JSONParse(FirstAttempt(str)).ok) =>
             rresult # JNull)

\* C25: for the canonical document cut inside one of its tables,
\* repairTruncatedJSON gives an object with the title, the key-value pairs
\* and the sections of the document.
C25_TruncatedTable ==
    (rpc = "done" /\ str \in TableCuts) =>
        /\ rresult # JNull
        /\ Get(rresult, "title") = JStr("T")
        /\ Get(rresult, "keyValuePairs") = JArr(<< KeyValueObject("a", "b") >>)
        /\ Get(rresult, "sections") = JArr(<< SectionObject("H", "c") >>)


---------------------------------------------------------------------------
(* Frame of the quality gate                                               *)

\* the table is not queued: no string `data` with a data row, or at most 0.4
\* of its cells empty
NotQueuedTable(tbl) ==
    HasDataRows(tbl) =>
        LET n == CellCounts[Get(tbl, "data").s] IN 10 * n.blank <= 4 * n.total

\* the place of table ti among the queued tables of the input
QueuedRank(ti) ==
    Cardinality({ k \in 1..ti : ~NotQueuedTable(TablesOf(gorig)[k]) })

\* C26: throughout a run of reExtractEmptyTables the document keeps its
\* entries and the number of its tables; title, keyValuePairs and sections
\* are the input's; a table that was not queued is the input's; and a table
\* that differs from the input's is the i-th queued one and equals candidate
\* i of the answer.
C26_GateFrame ==
    /\ Len(parsedData.e) = Len(gorig.e)
    /\ \A n \in 1..Len(gorig.e) :
          /\ parsedData.e[n].s = gorig.e[n].s
          /\ gorig.e[n].s # "tables" => parsedData.e[n] = gorig.e[n]
    /\ Get(parsedData, "title") = Get(gorig, "title")
    /\ Get(parsedData, "keyValuePairs") = Get(gorig, "keyValuePairs")
    /\ Get(parsedData, "sections") = Get(gorig, "sections")
    /\ Len(TablesOf(parsedData)) = Len(TablesOf(gorig))
    /\ \A ti \in 1..Len(TablesOf(gorig)) :
          LET tbl == TablesOf(gorig)[ti]
              now == TablesOf(parsedData)[ti]
          IN  /\ NotQueuedTable(tbl) => now = tbl
              /\ now # tbl =>
                    /\ gpc \in {"merge", "done"}
                    /\ QueuedRank(ti) <= Len(TablesOf(greExtracted))
                    /\ now = TablesOf(greExtracted)[QueuedRank(ti)]

\* the first table is not queued, the second is and takes the first of two
\* candidates
C26_Witness ==
    /\ gpc = "done"
    /\ Len(TablesOf(gorig)) = 2
    /\ NotQueuedTable(TablesOf(gorig)[1])
    /\ gqueue = << 2 >>
    /\ Len(TablesOf(greExtracted)) = 2
    /\ TablesOf(parsedData)[1] = TablesOf(gorig)[1]
    /\ TablesOf(parsedData)[2] = TablesOf(greExtracted)[1]
    /\ TablesOf(parsedData)[2] # TablesOf(gorig)[2]
    /\ TablesOf(greExtracted)[2] # TablesOf(greExtracted)[1]


\* C30: a turn of the merge loop that changes the document puts the
\* candidate object itself at the index of the queued table: the entries of
\* the table after the turn are the candidate's, caption and data included,
\* and the caption of the table it replaces is gone.
C30_WholesaleReplacement ==
    [][(gpc = "merge" /\ parsedData' # parsedData) =>
          (/\ TablesOf(parsedData')[gqueue[gi]].e = TablesOf(greExtracted)[gi].e
           /\ Get(TablesOf(parsedData')[gqueue[gi]], "caption")
                 = Get(TablesOf(greExtracted)[gi], "caption")
           /\ Get(TablesOf(parsedData')[gqueue[gi]], "data")
                 = Get(TablesOf(greExtracted)[gi], "data")
           /\ Get(TablesOf(parsedData)[gqueue[gi]], "caption") = JStr("Old")
                 => Get(TablesOf(parsedData')[gqueue[gi]], "caption") # JStr("Old"))]_vars

\* a table captioned Old was replaced by a candidate without a caption
C30_Witness ==
    /\ gpc = "done"
    /\ gqueue = << 1 >>
    /\ Get(TablesOf(gorig)[1], "caption") = JStr("Old")
    /\ Len(TablesOf(greExtracted)) = 1
    /\ TablesOf(greExtracted)[1] = ObjectOf(<< <<"data", JStr("A|B\n1|2")>> >>)
    /\ TablesOf(parsedData)[1] = TablesOf(greExtracted)[1]
    /\ Get(TablesOf(parsedData)[1], "caption") = Undefined


\* C27: a table header met while a table is open ends that table, which is
\* added to the output with its own rows, and the new table starts without
\* rows; two tables with no line between them come out as two tables, each
\* with its own header and rows.
C27_TablesKeptApart ==
    /\ [][(InLoop /\ li' = li + 2) =>
             (/\ tableRows' = << >>
              /\ inTable =>
                   presult'.tables
                      = Append(presult.tables, MarkdownTable(tableHeaders, tableRows)))]_vars
    /\ []((ppc = "done"
             /\ text = "| A | B |\n|---|---|\n| 1 | 2 |\n| C | D |\n|---|---|\n| 3 | 4 |") =>
            presult.tables
               = << MarkdownTable(<< "A", "B" >>, << << "1", "2" >> >>),
                    MarkdownTable(<< "C", "D" >>, << << "3", "4" >> >>) >>)


---------------------------------------------------------------------------
(* Shapes of parseCompactTable                                             *)

\* `data` of the table is a non-empty string
HasCompactData(tbl) == Get(tbl, "data").t = "str" /\ Get(tbl, "data").s # ""

\* the table has both arrays of the legacy shape
HasLegacyArrays(tbl) == IsArray(Get(tbl, "headers")) /\ IsArray(Get(tbl, "rows"))

\* the case in which the function is to return failure
NoShape(tbl) ==
    \/ HasCompactData(tbl) /\ NonBlankAt(Get(tbl, "data").s) = {}
    \/ ~HasCompactData(tbl) /\ ~HasLegacyArrays(tbl)

\* C29: parseCompactTable returns failure exactly for a table whose `data` is
\* a non-empty string without a non-blank line, or whose `data` is no
\* non-empty string while headers and rows are not both arrays; a non-empty
\* string `data` decides alone, also on a table that has both arrays.
C29_ShapePrecedence ==
    (tpc \in {"done", "threw"}) =>
        /\ (tpc = "done" /\ tresult = JNull) <=> NoShape(table)
        /\ (HasCompactData(table) /\ ~NoShape(table)) =>
              Get(tresult, "headers") = TrimmedCells(NthNonBlank(Get(table, "data").s, 1))
        /\ (HasCompactData(table) /\ NoShape(table) /\ HasLegacyArrays(table)) =>
              tresult = JNull
        /\ (~HasCompactData(table) /\ HasLegacyArrays(table)) =>
              Get(tresult, "headers") = Get(table, "headers")


---------------------------------------------------------------------------
(* The quality check never fails the extraction                            *)

\* C28: the extraction returns success whatever the gate does; the gate is
\* called exactly when the text parses as JSON with a non-empty `tables`
\* array; the text returned is the serialisation of the document the gate
\* returned, and the text the check started with when the gate was not
\* called or rejected.
C28_GateNeverFails ==
    /\ (epc = "done") =>
          /\ eresult.returned /\ eresult.success
          /\ eresult.text = IF gpc = "done" THEN Stringify(parsedData) ELSE preGateText
          /\ (gpc # "idle") <=> GateApplies(JSONParse(preGateText))
    /\ (gpc # "idle") => GateApplies(JSONParse(preGateText))
    /\ (epc = "done" /\ gpc = "done" /\ parsedData = gorig /\ Get(gorig, "n") = JNum("1.50")) =>
          eresult.text
             = "{\"title\":\"T\",\"tables\":[{\"data\":\"A|B\\n1|\"},{\"data\":\"A|B\\n1|2\"}],\"n\":1.5}"

\* the gate rejected (a null among the tables) and the extraction succeeded
\* with the text it had
C28_Witness ==
    /\ epc = "done"
    /\ gpc = "rejected"
    /\ eresult = ExtractionResult(TRUE, "{\"title\":\"T\",\"tables\":[{\"data\":\"A|B\\n|\"},null]}")

=============================================================================
